---- MODULE Spec2Model ----
(***************************************************************************)
(* Client-side reconciliation core of the two-player word game:            *)
(* App (src/src/App.js), RealtimeManager (src/src/services/                *)
(* realtimeService.js), TurnIndicator / GameOverScreen (src/app.js),       *)
(* GameGrid (src/unnamed/part_001), GuessInput (src/src/components/        *)
(* GuessInput.js) and the game service (src/unnamed/part_003).             *)
(* The backend (room row, RPCs, change feed) is the external authority;    *)
(* it is modelled from its interface contract.                             *)
(***************************************************************************)
EXTENDS Integers, FiniteSets, Sequences, TLC

\* ------------------------------------------------------------------ bounds

\* Cells of the board that are modelled (the program's board is 5 x 5).
NumCells == 1
\* Moves (reveal, pass, finish, cancel) the authority performs on the room.
MaxMoves == 1
\* getGameState requests started by the swipe-up refresh gesture.
MaxRefresh == 1
\* create-game and join-game requests the user starts.
MaxRequests == 1
\* getGameState calls in flight at the same time.
MaxInFlight == 1
\* Times the game-over screen is counted as shown.
MaxShows == 2
\* create-game requests the user starts in the create-game flow on its own.
MaxCreates == 2
\* Create triggers that were suppressed and logged.
MaxIgnored == 1
\* Channels the bridge creates for the room.
MaxChannels == 2
\* unsubscribeFromRoom calls waiting for removeChannel at the same time.
MaxPending == 2
\* debounce calls made, the time followed and the step of the clock (ms).
MaxDebounceCalls == 3
MaxTime == 800
TickMs == 100

\* ---------------------------------------------------------------- values

Null == "null"
Me == "u1"
Opp == "u2"
RoomId == "r1"
Cells == 1..NumCells

\* One cell of a board array: { letter, revealed }.
HiddenCell == [letter |-> Null, revealed |-> FALSE]
OpenCell == [letter |-> "L", revealed |-> TRUE]

\* GameGrid.createEmptyBoard
createEmptyBoard == [c \in Cells |-> HiddenCell]

\* JavaScript values a board field of a snapshot can hold.
JsNull == [kind |-> "null", cells |-> createEmptyBoard]
JsArray(cells) == [kind |-> "array", cells |-> cells]
JsGridObject(cells) == [kind |-> "grid", cells |-> cells]
JsOpaqueObject == [kind |-> "object", cells |-> createEmptyBoard]

Truthy(v) == v.kind # "null"
IsArray(v) == v.kind = "array"

\* The field names under which a snapshot may carry its board, and "none".
Shapes == {"board_state", "grid", "field_state", "object", "none"}

\* The shapes of the rows of the change feed and of getGameState: each of
\* the two may be any shape while the other has the current key,
\* board_state (the key RealtimeManager compares, and the first App reads).
Schemas ==
  {s \in Shapes \X Shapes : s[1] = "board_state" \/ s[2] = "board_state"}

\* ------------------------------------------------------- external authority

\* The room row of the authority before any room exists.
NoRoom ==
  [status |-> "none", player1_id |-> Null, player2_id |-> Null,
   current_player |-> 0, revealed |-> {}, winner |-> 0]

BoardOf(row) == [c \in Cells |-> IF c \in row.revealed THEN OpenCell ELSE HiddenCell]

\* A snapshot of the room row as the client receives it, its board carried
\* under the field the given shape names.
Snapshot(row, shape) ==
  [id |-> IF row.status = "none" THEN Null ELSE RoomId,
   status |-> row.status,
   player1_id |-> row.player1_id,
   player2_id |-> row.player2_id,
   current_player |-> row.current_player,
   player1_score |-> IF row.winner = 1 THEN 1 ELSE 0,
   player2_score |-> IF row.winner = 2 THEN 1 ELSE 0,
   winner |-> row.winner,
   word |-> IF row.status = "finished" THEN "W" ELSE Null,
   board_state |-> IF shape = "board_state" THEN JsArray(BoardOf(row)) ELSE JsNull,
   field_state |-> CASE shape = "grid" -> JsGridObject(BoardOf(row))
                     [] shape = "field_state" -> JsArray(BoardOf(row))
                     [] shape = "object" -> JsOpaqueObject
                     [] OTHER -> JsNull]

\* App.state.gameState before any snapshot was applied (null).
NoSnapshot == Snapshot(NoRoom, "none")

\* ------------------------------------------------------------ TurnIndicator

\* TurnIndicator constructor.
NewTurnIndicator ==
  [currentPlayer |-> 0, currentUserId |-> Null, player1Id |-> Null,
   player2Id |-> Null, player1Score |-> 0, player2Score |-> 0,
   gameStatus |-> "waiting"]

\* Mutant of updateGameState: the scores are added to the ones displayed.
updateGameStateAddingScores(ti, gameState) ==
  [ti EXCEPT !.currentPlayer = gameState.current_player,
             !.player1Id = gameState.player1_id,
             !.player2Id = gameState.player2_id,
             !.player1Score = @ + gameState.player1_score,
             !.player2Score = @ + gameState.player2_score,
             !.gameStatus = gameState.status]

\* TurnIndicator.updateGameState
updateGameState(ti, gameState) ==
  [ti EXCEPT !.currentPlayer = gameState.current_player,
             !.player1Id = gameState.player1_id,
             !.player2Id = gameState.player2_id,
             !.player1Score = gameState.player1_score,
             !.player2Score = gameState.player2_score,
             !.gameStatus = gameState.status]

\* TurnIndicator.setCurrentUser
setCurrentUser(ti, userId) == [ti EXCEPT !.currentUserId = userId]

\* Mutant of isCurrentUserTurn: the guard on unknown values is missing.
isCurrentUserTurnUnguarded(ti) ==
  IF ti.currentPlayer = 1 /\ ti.currentUserId = ti.player1Id THEN TRUE
  ELSE IF ti.currentPlayer = 2 /\ ti.currentUserId = ti.player2Id THEN TRUE
  ELSE FALSE

\* TurnIndicator.isCurrentUserTurn
isCurrentUserTurn(ti) ==
  IF ti.currentUserId = Null \/ ti.currentPlayer = 0 THEN FALSE
  ELSE IF ti.currentPlayer = 1 /\ ti.currentUserId = ti.player1Id THEN TRUE
  ELSE IF ti.currentPlayer = 2 /\ ti.currentUserId = ti.player2Id THEN TRUE
  ELSE FALSE

\* TurnIndicator.getCurrentUserPlayerNumber (0 stands for null)
getCurrentUserPlayerNumber(ti) ==
  IF ti.currentUserId = Null THEN 0
  ELSE IF ti.currentUserId = ti.player1Id THEN 1
  ELSE IF ti.currentUserId = ti.player2Id THEN 2
  ELSE 0

\* ----------------------------------------------------- GameGrid, GuessInput

\* GameGrid constructor.
NewGameGrid == [boardState |-> createEmptyBoard, isInteractive |-> FALSE]

\* GameGrid.updateBoard
updateBoard(grid, newBoardState) ==
  IF IsArray(newBoardState)
  THEN [grid EXCEPT !.boardState =
          [c \in Cells |-> [letter |-> newBoardState.cells[c].letter,
                            revealed |-> newBoardState.cells[c].revealed]]]
  ELSE grid

\* GameGrid.setInteractive
setInteractive(grid, interactive) == [grid EXCEPT !.isInteractive = interactive]

\* GuessInput constructor.
NewGuessInput == [isEnabled |-> FALSE]

\* GuessInput.setEnabled
setEnabled(input, enabled) == [input EXCEPT !.isEnabled = enabled]

\* ------------------------------------------------------------ GameOverScreen

\* GameOverScreen constructor.
NewGameOverScreen ==
  [isVisible |-> FALSE, winner |-> 0, word |-> Null,
   player1Score |-> 0, player2Score |-> 0]

\* GameOverScreen.show
show(screen, result) ==
  [screen EXCEPT !.isVisible = TRUE, !.winner = result.winner,
                 !.word = result.word, !.player1Score = result.player1Score,
                 !.player2Score = result.player2Score]

\* ---------------------------------------------------------------------- App

\* App constructor followed by init(): the user is authenticated, the
\* components are constructed and the menu is showing.
NewAppState ==
  [currentUser |-> Me, roomId |-> Null, gameState |-> NoSnapshot,
   isCreatingGame |-> FALSE, isFirstPlayer |-> FALSE,
   playerJoinedNotificationShown |-> FALSE,
   previousGameState |-> NoSnapshot]

NewUi == [screen |-> "menu", waitingIndicator |-> FALSE, errorMessage |-> FALSE]

\* What has been shown to the user in the current room session (history
\* kept for the properties; the program does not read it).
NewObs ==
  [joinShown |-> 0, joinPushHandled |-> FALSE,
   shownWhen |-> [shown |-> FALSE, flagWasSet |-> FALSE, isFirstPlayer |-> FALSE,
                  newHasPlayer2 |-> FALSE, previousHadPlayer2 |-> FALSE,
                  oldHadPlayer2 |-> FALSE],
   gameOverShows |-> 0, finishedApplied |-> FALSE]

NewClient ==
  [app |-> NewAppState, gameGrid |-> NewGameGrid, guessInput |-> NewGuessInput,
   turnIndicator |-> NewTurnIndicator, gameOverScreen |-> NewGameOverScreen,
   ui |-> NewUi, obs |-> NewObs]

\* App.handleGameUpdate: const boardData = board_state || field_state?.grid || field_state
BoardData(gameState) ==
  IF Truthy(gameState.board_state) THEN gameState.board_state
  ELSE IF gameState.field_state.kind = "grid" THEN JsArray(gameState.field_state.cells)
  ELSE gameState.field_state

\* App.hideWaitingForPlayer
hideWaitingForPlayer(c) == [c EXCEPT !.ui.waitingIndicator = FALSE]

\* App.showWaitingForPlayer
showWaitingForPlayer(c) ==
  IF c.app.isFirstPlayer THEN [c EXCEPT !.ui.waitingIndicator = TRUE] ELSE c

\* History of applied snapshots that carry a board.
ObserveApply(c, gameState) ==
  [c EXCEPT !.obs.finishedApplied = @ \/ gameState.status = "finished"]

\* Mutant of Interactive: the status of the game is not consulted.
InteractiveIgnoringStatus(isMyTurn, isActive) == isMyTurn

\* App.handleGameUpdate, the argument of setInteractive and setEnabled.
Interactive(isMyTurn, isActive) == isMyTurn /\ isActive

\* App.handleGameUpdate after the board field was found: the components
\* are updated from the snapshot.
RenderUpdate(c, gameState, boardData) ==
  LET c2 == IF gameState.status = "active" THEN hideWaitingForPlayer(c) ELSE c
      grid == updateBoard(c2.gameGrid, boardData)
      ti == updateGameState(setCurrentUser(c2.turnIndicator, c2.app.currentUser),
                            gameState)
      isMyTurn == isCurrentUserTurn(ti)
      isActive == gameState.status = "active"
  IN ObserveApply(
       [c2 EXCEPT !.gameGrid = setInteractive(grid, Interactive(isMyTurn, isActive)),
                  !.guessInput = setEnabled(c2.guessInput,
                                            Interactive(isMyTurn, isActive)),
                  !.turnIndicator = ti],
       gameState)

\* Mutant of handleGameUpdate: no early return when the board is missing.
handleGameUpdateAlwaysRendering(c, gameState) ==
  RenderUpdate([c EXCEPT !.app.previousGameState = c.app.gameState,
                         !.app.gameState = gameState],
               gameState, BoardData(gameState))

\* App.handleGameUpdate
handleGameUpdate(c, gameState) ==
  LET c1 == [c EXCEPT !.app.previousGameState = c.app.gameState,
                      !.app.gameState = gameState]
      boardData == BoardData(gameState)
  IN IF ~Truthy(boardData) THEN c1
     ELSE RenderUpdate(c1, gameState, boardData)

\* App.handleGameFinished
handleGameFinished(c, gameState) ==
  [c EXCEPT !.gameOverScreen =
              show(@, [winner |-> gameState.winner, word |-> gameState.word,
                       player1Score |-> gameState.player1_score,
                       player2Score |-> gameState.player2_score]),
            !.obs.gameOverShows = @ + 1]

\* onPlayerJoined, the body of its if: the waiting indicator is hidden, the
\* notification is shown and (markShown) the flag is set.
ShowPlayerJoined(c, newRecord, markShown) ==
  [hideWaitingForPlayer(c) EXCEPT
     !.app.playerJoinedNotificationShown = IF markShown THEN TRUE ELSE @,
     !.obs.joinShown = @ + 1,
     !.obs.shownWhen =
        [@ EXCEPT !.shown = TRUE,
                  !.flagWasSet = c.app.playerJoinedNotificationShown,
                  !.isFirstPlayer = c.app.isFirstPlayer,
                  !.newHasPlayer2 = newRecord.player2_id # Null,
                  !.previousHadPlayer2 = c.app.previousGameState.player2_id # Null]]

\* Mutant of onPlayerJoined: the flag is never set.
onPlayerJoinedNotMarking(c, newRecord) ==
  handleGameUpdate(
    IF /\ ~c.app.playerJoinedNotificationShown
       /\ c.app.isFirstPlayer
       /\ newRecord.player2_id # Null
    THEN ShowPlayerJoined(c, newRecord, FALSE) ELSE c,
    newRecord)

\* Mutant of onPlayerJoined: the flag is not consulted.
onPlayerJoinedNotChecking(c, newRecord) ==
  handleGameUpdate(
    IF c.app.isFirstPlayer /\ newRecord.player2_id # Null
    THEN ShowPlayerJoined(c, newRecord, TRUE) ELSE c,
    newRecord)

\* Mutant of onPlayerJoined: the client's previous snapshot must have had
\* no second player.
onPlayerJoinedComparingPrevious(c, newRecord) ==
  handleGameUpdate(
    IF /\ ~c.app.playerJoinedNotificationShown
       /\ c.app.isFirstPlayer
       /\ newRecord.player2_id # Null
       /\ c.app.previousGameState.player2_id = Null
    THEN ShowPlayerJoined(c, newRecord, TRUE) ELSE c,
    newRecord)

\* The onPlayerJoined callback App.subscribeToRoom registers.
onPlayerJoined(c, newRecord) ==
  handleGameUpdate(
    IF /\ ~c.app.playerJoinedNotificationShown
       /\ c.app.isFirstPlayer
       /\ newRecord.player2_id # Null
    THEN ShowPlayerJoined(c, newRecord, TRUE) ELSE c,
    newRecord)

\* The onCellRevealed callback App.subscribeToRoom registers.
onCellRevealed(c, newRecord) == handleGameUpdate(c, newRecord)

\* The onGameFinished callback App.subscribeToRoom registers.
onGameFinished(c, newRecord) == handleGameFinished(c, newRecord)

\* ---------------------------------------------------------- RealtimeManager

\* RealtimeManager.handleGameUpdate for one raw notification
\* {eventType, new, old}, with the callbacks of App.subscribeToRoom.
BridgeHandleGameUpdate(c, payload) ==
  LET newRecord == payload.new
      oldRecord == payload.old
      c1 == handleGameUpdate(c, newRecord)
      joined == oldRecord.player2_id = Null /\ newRecord.player2_id # Null
      cj == onPlayerJoined(c1, newRecord)
      c2 == IF payload.eventType = "UPDATE" /\ joined
            THEN [cj EXCEPT
                    !.obs.joinPushHandled = TRUE,
                    !.obs.shownWhen.oldHadPlayer2 =
                       IF cj.obs.joinShown # c1.obs.joinShown
                       THEN oldRecord.player2_id # Null ELSE @]
            ELSE c1
      c3 == IF payload.eventType = "UPDATE"
               /\ oldRecord.board_state # newRecord.board_state
            THEN onCellRevealed(c2, newRecord) ELSE c2
      c4 == IF payload.eventType = "UPDATE"
               /\ oldRecord.status = "active" /\ newRecord.status = "finished"
            THEN onGameFinished(c3, newRecord) ELSE c3
  IN c4

\* -------------------------------------------------------------------- state

VARIABLES
  app,             \* App.state
  gameGrid,        \* App.components.gameGrid
  guessInput,      \* App.components.guessInput
  turnIndicator,   \* App.components.turnIndicator
  gameOverScreen,  \* App.components.gameOverScreen
  ui,              \* the screen, the waiting indicator, the error message
  obs,             \* what was shown in this room session (history)
  subscribed,      \* realtimeManager.channels has the room
  room,            \* the authority's room row
  moves,           \* moves the authority has performed
  pushes,          \* change notifications in flight (unordered, may repeat)
  fetches,         \* getGameState calls in flight
  rpc,             \* createGame / joinGame calls in flight and started
  timers,          \* armed isCreatingGame reset timers
  pushShape,       \* board field of the rows the change feed delivers
  fetchShape,      \* board field of the rows getGameState returns
  createFlow,      \* the create-game requests one by one: call, timer, log
  gateway,         \* the gateway call in progress: attempts, waits, outcome
  bridge,          \* RealtimeManager on its own: channels, removals, callbacks
  validation,      \* the validator called last: its argument and its result
  play,            \* the moves of this user: their remote calls in flight
  debouncer        \* AppDebouncer on its own: its map, the timers, the clock

vars ==
  <<app, gameGrid, guessInput, turnIndicator, gameOverScreen, ui, obs,
    subscribed, room, moves, pushes, fetches, rpc, timers, pushShape, fetchShape,
    createFlow, gateway, bridge, validation, play, debouncer>>

clientVars == <<app, gameGrid, guessInput, turnIndicator, gameOverScreen, ui, obs>>
serverVars == <<room, moves, pushes>>
schemaVars == <<pushShape, fetchShape>>
auxVars == <<createFlow, gateway, bridge, validation, play, debouncer>>

\* No create-game request followed one by one.
NoCreateFlow == [requests |-> <<>>, ignored |-> 0]

\* No gateway call in progress.
NoArgs ==
  [wordLength |-> [type |-> "undefined", int |-> FALSE, n |-> 0],
   roomId |-> [type |-> "undefined", empty |-> FALSE, layout |-> FALSE,
               hex |-> FALSE, version |-> "0", variant |-> "0"],
   row |-> [type |-> "undefined", int |-> FALSE, n |-> 0],
   col |-> [type |-> "undefined", int |-> FALSE, n |-> 0],
   word |-> [type |-> "undefined", chars |-> <<>>]]
NoGateway ==
  [op |-> "none", args |-> NoArgs, pc |-> "idle", attempt |-> 0, calls |-> 0,
   waits |-> <<>>, errors |-> <<>>,
   result |-> [kind |-> "none", code |-> Null, from |-> "none"],
   thrown |-> [gameError |-> FALSE, code |-> Null, tokens |-> {}]]

\* No validator was called yet.
NoValidation ==
  [fn |-> "none", input |-> [type |-> "undefined"], output |-> [valid |-> FALSE],
   threw |-> FALSE]

\* No move of this user yet: no remote call of a move in flight or started.
NoPlay == [calls |-> {}, started |-> 0]

\* RealtimeManager constructor: no channel, and nothing delivered yet.
NoBridge ==
  [channels |-> 0,
   status |-> [k \in 1..MaxChannels |-> "none"],
   pending |-> <<>>,
   last |-> [channel |-> 0, eventType |-> "none", old |-> NoRoom, new |-> NoRoom,
             log |-> <<>>],
   deletedOn |-> {},
   late |-> FALSE,
   report |-> [status |-> "none", err |-> "none", onError |-> 0, escaped |-> FALSE,
               created |-> 0]]

\* The keys the application debounces under, and new AppDebouncer(): an
\* empty map, no timer scheduled, nothing called and nothing run.
DebounceKeys == {"loadGameState", "refreshGameState"}

NoDebouncer ==
  [timers |-> [key \in DebounceKeys |-> 0],
   scheduled |-> {},
   now |-> 0,
   calls |-> <<>>,
   ran |-> <<>>]

\* The client's state as one record, and its assignment to the variables.
Client ==
  [app |-> app, gameGrid |-> gameGrid, guessInput |-> guessInput,
   turnIndicator |-> turnIndicator, gameOverScreen |-> gameOverScreen,
   ui |-> ui, obs |-> obs]

SetClient(c) ==
  /\ app' = c.app
  /\ gameGrid' = c.gameGrid
  /\ guessInput' = c.guessInput
  /\ turnIndicator' = c.turnIndicator
  /\ gameOverScreen' = c.gameOverScreen
  /\ ui' = c.ui
  /\ obs' = c.obs

Init ==
  /\ app = NewAppState
  /\ gameGrid = NewGameGrid
  /\ guessInput = NewGuessInput
  /\ turnIndicator = NewTurnIndicator
  /\ gameOverScreen = NewGameOverScreen
  /\ ui = NewUi
  /\ obs = NewObs
  /\ subscribed = FALSE
  /\ room = NoRoom
  /\ moves = 0
  /\ pushes = {}
  /\ fetches = {}
  /\ rpc = [creates |-> 0, joins |-> 0, started |-> 0, refreshes |-> 0]
  /\ timers = 0
  /\ createFlow = NoCreateFlow
  /\ gateway = NoGateway
  /\ bridge = NoBridge
  /\ validation = NoValidation
  /\ play = NoPlay
  /\ debouncer = NoDebouncer
  /\ \E schema \in Schemas :
       /\ pushShape = schema[1]
       /\ fetchShape = schema[2]

\* ------------------------------------------- actions of the external authority

\* The change feed carries an UPDATE of the row to a subscribed client.
Emit(old, new) ==
  pushes' = IF subscribed
            THEN pushes \cup {[eventType |-> "UPDATE", old |-> old, new |-> new]}
            ELSE pushes

\* The opponent creates the room (create_game called by the other user).
OpponentCreates ==
  /\ room.status = "none"
  /\ room' = [NoRoom EXCEPT !.status = "waiting", !.player1_id = Opp,
                            !.current_player = 1]
  /\ UNCHANGED <<clientVars, subscribed, moves, pushes, fetches, rpc, timers, schemaVars, auxVars>>

\* The opponent joins the room this user created (join_game by the other user).
OpponentJoins ==
  /\ room.status = "waiting"
  /\ room.player1_id = Me
  /\ \E first \in {1, 2} :
       /\ room' = [room EXCEPT !.status = "active", !.player2_id = Opp,
                               !.current_player = first]
       /\ Emit(room, room')
  /\ UNCHANGED <<clientVars, subscribed, moves, fetches, rpc, timers, schemaVars, auxVars>>

\* reveal_cell accepted by the authority for the player whose turn it is.
Reveal ==
  /\ room.status = "active"
  /\ moves < MaxMoves
  /\ \E cell \in Cells \ room.revealed :
       /\ room' = [room EXCEPT !.revealed = @ \cup {cell}]
       /\ Emit(room, room')
  /\ moves' = moves + 1
  /\ UNCHANGED <<clientVars, subscribed, fetches, rpc, timers, schemaVars, auxVars>>

\* skip_turn, or validate_guess with a wrong word: the turn passes.
PassTurn ==
  /\ room.status = "active"
  /\ moves < MaxMoves
  /\ room' = [room EXCEPT !.current_player = 3 - @]
  /\ Emit(room, room')
  /\ moves' = moves + 1
  /\ UNCHANGED <<clientVars, subscribed, fetches, rpc, timers, schemaVars, auxVars>>

\* validate_guess with the right word: the room finishes with a winner.
Finish ==
  /\ room.status = "active"
  /\ moves < MaxMoves
  /\ room' = [room EXCEPT !.status = "finished", !.winner = room.current_player]
  /\ Emit(room, room')
  /\ moves' = moves + 1
  /\ UNCHANGED <<clientVars, subscribed, fetches, rpc, timers, schemaVars, auxVars>>

\* A waiting room is cancelled.
Cancel ==
  /\ room.status = "waiting"
  /\ moves < MaxMoves
  /\ room' = [room EXCEPT !.status = "cancelled"]
  /\ Emit(room, room')
  /\ moves' = moves + 1
  /\ UNCHANGED <<clientVars, subscribed, fetches, rpc, timers, schemaVars, auxVars>>

\* getGameState reads the row: the response carries the row as it is now.
ServeFetch ==
  /\ \E f \in fetches :
       /\ ~f.served
       /\ fetches' = (fetches \ {f}) \cup {[f EXCEPT !.served = TRUE, !.row = room]}
  /\ UNCHANGED <<clientVars, subscribed, serverVars, rpc, timers, schemaVars, auxVars>>

\* ------------------------------------------------------- actions of the client

\* Mutant of handleError: the snapshot of the session is dropped as well.
handleErrorDroppingSnapshot(c) ==
  [c EXCEPT !.ui.errorMessage = TRUE, !.app.gameState = NoSnapshot]

\* App.handleError: hideLoading and showError.
handleError(c) == [c EXCEPT !.ui.errorMessage = TRUE]

\* App.showGameScreen
showGameScreen(c) == [c EXCEPT !.ui.screen = "game"]

\* A room session starts where the notification flag is reset.
ResetSession(c) ==
  [c EXCEPT !.obs.joinShown = 0, !.obs.joinPushHandled = FALSE,
            !.obs.shownWhen = NewObs.shownWhen]

\* Mutant of CreateSuppressed: the in-flight flag is not consulted.
CreateNeverSuppressed(c) == FALSE

\* App.handleCreateGame, its guard: the call returns at once.
CreateSuppressed(c) == c.app.isCreatingGame

\* App.handleCreateGame between the guard and the first await.
BeginCreateGame(c) ==
  ResetSession([c EXCEPT !.app.isCreatingGame = TRUE,
                         !.app.isFirstPlayer = TRUE,
                         !.app.playerJoinedNotificationShown = FALSE])

\* Mutant of CreateTimerCallback: the timer leaves the flag alone.
CreateTimerCallbackIdle(c) == c

\* The callback of the timer handleCreateGame arms.
CreateTimerCallback(c) == [c EXCEPT !.app.isCreatingGame = FALSE]

\* Mutant of CreateGameCatch: the catch block leaves the flag set.
CreateGameCatchKeepingFlag(c) ==
  handleError([c EXCEPT !.app.isFirstPlayer = FALSE])

\* The catch block of App.handleCreateGame.
CreateGameCatch(c) ==
  handleError([c EXCEPT !.app.isCreatingGame = FALSE,
                        !.app.isFirstPlayer = FALSE])

\* App.handleCreateGame up to its first await (createGame is called).
HandleCreateGame ==
  /\ ui.screen = "menu"
  /\ IF CreateSuppressed(Client)
     THEN UNCHANGED <<clientVars, rpc, timers>>
     ELSE /\ rpc.started < MaxRequests
          /\ SetClient(BeginCreateGame(Client))
          /\ timers' = timers + 1
          /\ rpc' = [rpc EXCEPT !.creates = @ + 1, !.started = @ + 1]
  /\ UNCHANGED <<subscribed, serverVars, fetches, schemaVars, auxVars>>

\* The timer handleCreateGame arms: isCreatingGame = false after 2000 ms.
CreateTimerFires ==
  /\ timers > 0
  /\ timers' = timers - 1
  /\ SetClient(CreateTimerCallback(Client))
  /\ UNCHANGED <<subscribed, serverVars, fetches, rpc, schemaVars, auxVars>>

\* createGame returns a room: handleCreateGame stores the room id, subscribes
\* and starts loadGameState.
CreateGameReturns ==
  /\ rpc.creates > 0
  /\ room.status = "none"
  /\ rpc' = [rpc EXCEPT !.creates = @ - 1]
  /\ room' = [NoRoom EXCEPT !.status = "waiting", !.player1_id = Me,
                            !.current_player = 1]
  /\ app' = [app EXCEPT !.roomId = RoomId]
  /\ subscribed' = TRUE
  /\ fetches' = fetches \cup {[origin |-> "create", n |-> 0, served |-> FALSE,
                               row |-> NoRoom]}
  /\ UNCHANGED <<gameGrid, guessInput, turnIndicator, gameOverScreen, ui, obs,
                 moves, pushes, timers, schemaVars, auxVars>>

\* createGame throws: the catch block of handleCreateGame.
CreateGameFails ==
  /\ rpc.creates > 0
  /\ rpc' = [rpc EXCEPT !.creates = @ - 1]
  /\ SetClient(CreateGameCatch(Client))
  /\ UNCHANGED <<subscribed, serverVars, fetches, timers, schemaVars, auxVars>>

\* App.handleJoinGame up to its await (joinGame is called).
HandleJoinGame ==
  /\ ui.screen = "menu"
  /\ rpc.started < MaxRequests
  /\ rpc' = [rpc EXCEPT !.joins = @ + 1, !.started = @ + 1]
  /\ UNCHANGED <<clientVars, subscribed, serverVars, fetches, timers, schemaVars, auxVars>>

\* joinGame succeeds: the authority makes this user the second player, and
\* handleJoinGame stores the room id, subscribes and starts loadGameState.
JoinGameReturns ==
  /\ rpc.joins > 0
  /\ room.status = "waiting"
  /\ room.player1_id = Opp
  /\ rpc' = [rpc EXCEPT !.joins = @ - 1]
  /\ \E first \in {1, 2} :
       /\ room' = [room EXCEPT !.status = "active", !.player2_id = Me,
                               !.current_player = first]
       /\ Emit(room, room')
  /\ SetClient(ResetSession(
       [Client EXCEPT !.app.roomId = RoomId,
                      !.app.isFirstPlayer = FALSE,
                      !.app.playerJoinedNotificationShown = FALSE]))
  /\ subscribed' = TRUE
  /\ fetches' = fetches \cup {[origin |-> "join", n |-> 0, served |-> FALSE,
                               row |-> NoRoom]}
  /\ UNCHANGED <<moves, timers, schemaVars, auxVars>>

\* Mutant of JoinGameFails: the room id was stored before the call.
JoinGameFailsBound ==
  /\ rpc.joins > 0
  /\ rpc' = [rpc EXCEPT !.joins = @ - 1]
  /\ SetClient(handleError([Client EXCEPT !.app.roomId = RoomId]))
  /\ UNCHANGED <<subscribed, serverVars, fetches, timers, schemaVars, auxVars>>

\* joinGame throws (malformed id, room full, own room, not found, ...).
JoinGameFails ==
  /\ rpc.joins > 0
  /\ rpc' = [rpc EXCEPT !.joins = @ - 1]
  /\ SetClient(handleError(Client))
  /\ UNCHANGED <<subscribed, serverVars, fetches, timers, schemaVars, auxVars>>

\* The swipe-up gesture: loadGameState is called for the bound room.
Refresh ==
  /\ app.roomId # Null
  /\ ui.screen = "game"
  /\ rpc.refreshes < MaxRefresh
  /\ Cardinality(fetches) < MaxInFlight
  /\ rpc' = [rpc EXCEPT !.refreshes = @ + 1]
  /\ fetches' = fetches \cup {[origin |-> "refresh", n |-> rpc.refreshes + 1,
                               served |-> FALSE, row |-> NoRoom]}
  /\ UNCHANGED <<clientVars, subscribed, serverVars, timers, schemaVars, auxVars>>

\* What follows `await this.loadGameState()` in the handler that called it.
AfterLoad(c, origin) ==
  CASE origin = "create" -> showWaitingForPlayer(showGameScreen(c))
    [] origin = "join" -> showGameScreen(c)
    [] OTHER -> c

\* App.loadGameState: getGameState returned a snapshot.
LoadGameStateReturns ==
  /\ \E f \in fetches :
       LET gameState == Snapshot(f.row, fetchShape)
       IN /\ f.served
          /\ fetches' = fetches \ {f}
          /\ SetClient(AfterLoad(handleGameUpdate(Client, gameState), f.origin))
  /\ UNCHANGED <<subscribed, serverVars, rpc, timers, schemaVars, auxVars>>

\* App.loadGameState: getGameState threw.
LoadGameStateFails ==
  /\ \E f \in fetches :
       /\ fetches' = fetches \ {f}
       /\ SetClient(AfterLoad(handleError(Client), f.origin))
  /\ UNCHANGED <<subscribed, serverVars, rpc, timers, schemaVars, auxVars>>

\* The change feed delivers a notification to the subscribed channel:
\* RealtimeManager.handleGameUpdate runs with the App's callbacks.
DeliverPush ==
  /\ subscribed
  /\ \E p \in pushes :
       LET payload == [eventType |-> p.eventType,
                       old |-> Snapshot(p.old, pushShape),
                       new |-> Snapshot(p.new, pushShape)]
           c == BridgeHandleGameUpdate(Client, payload)
       IN /\ c.obs.gameOverShows <= MaxShows
          /\ SetClient(c)
  /\ UNCHANGED <<subscribed, serverVars, fetches, rpc, timers, schemaVars, auxVars>>

\* The timer App.showError arms hides the error message.
ErrorTimerFires ==
  /\ ui.errorMessage
  /\ ui' = [ui EXCEPT !.errorMessage = FALSE]
  /\ UNCHANGED <<app, gameGrid, guessInput, turnIndicator, gameOverScreen, obs,
                 subscribed, serverVars, fetches, rpc, timers, schemaVars, auxVars>>

Next ==
  \/ OpponentCreates
  \/ OpponentJoins
  \/ Reveal
  \/ PassTurn
  \/ Finish
  \/ Cancel
  \/ ServeFetch
  \/ HandleCreateGame
  \/ CreateTimerFires
  \/ CreateGameReturns
  \/ CreateGameFails
  \/ HandleJoinGame
  \/ JoinGameReturns
  \/ JoinGameFails
  \/ Refresh
  \/ LoadGameStateReturns
  \/ LoadGameStateFails
  \/ DeliverPush
  \/ ErrorTimerFires

Spec == Init /\ [][Next]_vars

\* --------------------------------------- TurnIndicator on arbitrary inputs

UserIds == {Null, Me, Opp}
PlayerNumbers == {0, 1, 2, 3}

\* Snapshots with every combination of identities and turn numbers.
TurnSnapshots ==
  {[NoSnapshot EXCEPT !.status = st, !.player1_id = p1, !.player2_id = p2,
                      !.current_player = cp] :
     st \in {"waiting", "active"}, p1 \in UserIds, p2 \in UserIds,
     cp \in PlayerNumbers}

\* TurnIndicator.setCurrentUser called with any user id.
CallSetCurrentUser ==
  /\ \E userId \in UserIds : turnIndicator' = setCurrentUser(turnIndicator, userId)
  /\ UNCHANGED <<app, gameGrid, guessInput, gameOverScreen, ui, obs, subscribed,
                 serverVars, fetches, rpc, timers, schemaVars, auxVars>>

\* TurnIndicator.updateGameState called with any snapshot.
CallUpdateGameState ==
  /\ \E gameState \in TurnSnapshots :
       turnIndicator' = updateGameState(turnIndicator, gameState)
  /\ UNCHANGED <<app, gameGrid, guessInput, gameOverScreen, ui, obs, subscribed,
                 serverVars, fetches, rpc, timers, schemaVars, auxVars>>

NextTurn == CallSetCurrentUser \/ CallUpdateGameState

\* A TurnIndicator on its own, driven with arbitrary inputs.
InitTurn == Init /\ pushShape = "board_state" /\ fetchShape = "board_state"

SpecTurn == InitTurn /\ [][NextTurn]_vars

\* ------------------------------------ the page loaded with a room id in its URL

\* The rooms the id in the URL may name when the page is loaded: rooms this
\* user is a player of already (the page is reloaded), and a waiting room of
\* the opponent (the invitation link is opened for the first time).
ReloadRooms ==
  {[NoRoom EXCEPT !.status = "waiting", !.player1_id = Me, !.current_player = 1],
   [NoRoom EXCEPT !.status = "waiting", !.player1_id = Opp, !.current_player = 1]}
  \cup {[NoRoom EXCEPT !.status = "active", !.player1_id = p[1], !.player2_id = p[2],
                       !.current_player = turn, !.revealed = revealed] :
          p \in {<<Me, Opp>>, <<Opp, Me>>}, turn \in {1, 2},
          revealed \in {{}, {1}}}

\* App.checkUrlParams: the room id of the URL is put into the input and,
\* when the debounce delay is over, handleJoinGame is called.
AutoJoinFromUrl ==
  /\ rpc.started = 0
  /\ HandleJoinGame

NextReload ==
  \/ AutoJoinFromUrl
  \/ JoinGameReturns
  \/ JoinGameFails
  \/ Reveal
  \/ PassTurn
  \/ Finish
  \/ ServeFetch
  \/ LoadGameStateReturns
  \/ LoadGameStateFails
  \/ DeliverPush
  \/ ErrorTimerFires

\* App.init has run on a freshly loaded page; the room of the URL exists.
InitReload ==
  /\ app = NewAppState
  /\ gameGrid = NewGameGrid
  /\ guessInput = NewGuessInput
  /\ turnIndicator = NewTurnIndicator
  /\ gameOverScreen = NewGameOverScreen
  /\ ui = NewUi
  /\ obs = NewObs
  /\ subscribed = FALSE
  /\ room \in ReloadRooms
  /\ moves = 0
  /\ pushes = {}
  /\ fetches = {}
  /\ rpc = [creates |-> 0, joins |-> 0, started |-> 0, refreshes |-> 0]
  /\ timers = 0
  /\ createFlow = NoCreateFlow
  /\ gateway = NoGateway
  /\ bridge = NoBridge
  /\ validation = NoValidation
  /\ play = NoPlay
  /\ debouncer = NoDebouncer
  /\ pushShape = "board_state"
  /\ fetchShape = "board_state"

\* The page loaded with a room id in its URL.
SpecReload == InitReload /\ [][NextReload]_vars

\* ------------------------------------- the create-game flow, request by request

CreateRequests == 1..Len(createFlow.requests)

\* The create button or the double-tap on the menu: App.handleCreateGame up
\* to its first await. A suppressed trigger only logs a warning.
TapCreate ==
  /\ ui.screen = "menu"
  /\ IF CreateSuppressed(Client)
     THEN /\ createFlow.ignored < MaxIgnored
          /\ createFlow' = [createFlow EXCEPT !.ignored = @ + 1]
          /\ UNCHANGED clientVars
     ELSE /\ Len(createFlow.requests) < MaxCreates
          /\ createFlow' = [createFlow EXCEPT !.requests =
                              Append(@, [call |-> "pending", timer |-> "armed"])]
          /\ SetClient(BeginCreateGame(Client))
  /\ UNCHANGED <<subscribed, serverVars, fetches, rpc, timers, schemaVars, gateway, bridge, validation, play, debouncer>>

\* 2000 ms after a request started, the timer it armed fires.
CreateTimeout ==
  /\ \E k \in CreateRequests :
       /\ createFlow.requests[k].timer = "armed"
       /\ createFlow' = [createFlow EXCEPT !.requests[k].timer = "fired"]
  /\ SetClient(CreateTimerCallback(Client))
  /\ UNCHANGED <<subscribed, serverVars, fetches, rpc, timers, schemaVars, gateway, bridge, validation, play, debouncer>>

\* createGame of a request resolves: the room id is stored, the room is
\* subscribed and loadGameState is started.
CreateSucceeds ==
  /\ \E k \in CreateRequests :
       /\ createFlow.requests[k].call = "pending"
       /\ createFlow' = [createFlow EXCEPT !.requests[k].call = "ok"]
       /\ fetches' = fetches \cup {[origin |-> "create", n |-> k, served |-> FALSE,
                                    row |-> NoRoom]}
  /\ room' = [NoRoom EXCEPT !.status = "waiting", !.player1_id = Me,
                            !.current_player = 1]
  /\ app' = [app EXCEPT !.roomId = RoomId]
  /\ subscribed' = TRUE
  /\ UNCHANGED <<gameGrid, guessInput, turnIndicator, gameOverScreen, ui, obs,
                 moves, pushes, rpc, timers, schemaVars, gateway, bridge, validation, play, debouncer>>

\* createGame of a request rejects: the catch block of handleCreateGame.
CreateRejects ==
  /\ \E k \in CreateRequests :
       /\ createFlow.requests[k].call = "pending"
       /\ createFlow' = [createFlow EXCEPT !.requests[k].call = "failed"]
  /\ SetClient(CreateGameCatch(Client))
  /\ UNCHANGED <<subscribed, serverVars, fetches, rpc, timers, schemaVars, gateway, bridge, validation, play, debouncer>>

NextCreate ==
  \/ TapCreate
  \/ CreateTimeout
  \/ CreateSucceeds
  \/ CreateRejects
  \/ ServeFetch
  \/ LoadGameStateReturns
  \/ LoadGameStateFails
  \/ ErrorTimerFires

InitCreate == Init /\ pushShape = "board_state" /\ fetchShape = "board_state"

\* The create-game flow on its own.
SpecCreate == InitCreate /\ [][NextCreate]_vars

\* The same, with the timers of the event loop firing eventually.
SpecCreateFair == SpecCreate /\ WF_vars(CreateTimeout)

\* ------------------------------------------------------------- validation

MIN_WORD_LENGTH == 5
MAX_WORD_LENGTH == 8
MIN_ROW == 0
MAX_ROW == 4
MIN_COL == 0
MAX_COL == 4

\* JavaScript values passed where a number is expected: an integer, a
\* number that is no integer (5.5, NaN), a string, undefined.
JsNumber(n) == [type |-> "number", int |-> TRUE, n |-> n]
JsFraction == [type |-> "number", int |-> FALSE, n |-> 5]
JsString(n) == [type |-> "string", int |-> FALSE, n |-> n]
JsUndefined == [type |-> "undefined", int |-> FALSE, n |-> 0]

NumberIsInteger(v) == v.type = "number" /\ v.int

\* Mutant of validateWordLength: the bounds themselves are refused.
validateWordLengthExclusive(length) ==
  IF length.type # "number" \/ ~NumberIsInteger(length)
  THEN [valid |-> FALSE, error |-> "not an integer"]
  ELSE IF length.n <= MIN_WORD_LENGTH \/ length.n >= MAX_WORD_LENGTH
  THEN [valid |-> FALSE, error |-> "out of range"]
  ELSE [valid |-> TRUE, error |-> Null]

\* validateWordLength
validateWordLength(length) ==
  IF length.type # "number" \/ ~NumberIsInteger(length)
  THEN [valid |-> FALSE, error |-> "not an integer"]
  ELSE IF length.n < MIN_WORD_LENGTH \/ length.n > MAX_WORD_LENGTH
  THEN [valid |-> FALSE, error |-> "out of range"]
  ELSE [valid |-> TRUE, error |-> Null]

\* validateCellCoordinates
validateCellCoordinates(row, col) ==
  IF ~NumberIsInteger(row) \/ ~NumberIsInteger(col)
  THEN [valid |-> FALSE, error |-> "not an integer"]
  ELSE IF \/ row.n < MIN_ROW \/ row.n > MAX_ROW
          \/ col.n < MIN_COL \/ col.n > MAX_COL
  THEN [valid |-> FALSE, error |-> "out of range"]
  ELSE [valid |-> TRUE, error |-> Null]

\* Text values: a string as its characters, or a value that is no string.
JsText(chars) == [type |-> "string", chars |-> chars]
JsNoText(type) == [type |-> type, chars |-> <<>>]

\* !value for a text value: null, undefined and the empty string are falsy.
Falsy(v) == v.type \in {"null", "undefined"} \/ (v.type = "string" /\ v.chars = <<>>)

\* Characters: Cyrillic letters are written by name (cyr-a for U+0430,
\* CYR-A for U+0410, ...), "x" and "X" are Latin letters.
Whitespace == {" "}
CyrillicLower == {"cyr-a", "cyr-ya", "cyr-yo"}
CyrillicUpper == {"CYR-A", "CYR-YA", "CYR-YO"}

\* Cyrillic letters outside the ranges of the pattern: the Ukrainian i
\* (cyr-i-ukr for U+0456, CYR-I-UKR for U+0406).
CyrillicOther == {"cyr-i-ukr", "CYR-I-UKR"}

\* Mutant of UpperChar: the case of a letter is swapped.
UpperCharSwapping(ch) ==
  CASE ch = "cyr-a" -> "CYR-A" [] ch = "cyr-ya" -> "CYR-YA"
    [] ch = "cyr-yo" -> "CYR-YO" [] ch = "cyr-i-ukr" -> "CYR-I-UKR"
    [] ch = "CYR-A" -> "cyr-a" [] ch = "CYR-YA" -> "cyr-ya"
    [] ch = "CYR-YO" -> "cyr-yo" [] ch = "CYR-I-UKR" -> "cyr-i-ukr"
    [] ch = "x" -> "X" [] ch = "X" -> "x" [] OTHER -> ch

\* String.prototype.toUpperCase, per character.
UpperChar(ch) ==
  CASE ch = "cyr-a" -> "CYR-A" [] ch = "cyr-ya" -> "CYR-YA"
    [] ch = "cyr-yo" -> "CYR-YO" [] ch = "cyr-i-ukr" -> "CYR-I-UKR"
    [] ch = "x" -> "X" [] OTHER -> ch

toUpperCase(chars) == [i \in 1..Len(chars) |-> UpperChar(chars[i])]

RECURSIVE trimStart(_)
trimStart(chars) ==
  IF chars # <<>> /\ Head(chars) \in Whitespace THEN trimStart(Tail(chars)) ELSE chars

RECURSIVE trimEnd(_)
trimEnd(chars) ==
  IF chars # <<>> /\ chars[Len(chars)] \in Whitespace
  THEN trimEnd(SubSeq(chars, 1, Len(chars) - 1)) ELSE chars

\* Mutant of trim: only the leading white space is removed.
trimLeading(chars) == trimStart(chars)

\* String.prototype.trim
trim(chars) == trimEnd(trimStart(chars))

\* VALIDATION_CONFIG.REGEX.WORD.test: one or more Cyrillic letters, any case.
RegexWord(chars) ==
  /\ chars # <<>>
  /\ \A i \in 1..Len(chars) : chars[i] \in CyrillicLower \cup CyrillicUpper

\* validateGuessInput
validateGuessInput(word) ==
  IF Falsy(word) \/ word.type # "string"
  THEN [valid |-> FALSE, normalized |-> <<>>, error |-> "empty"]
  ELSE LET trimmed == trim(word.chars)
       IN IF \/ Len(trimmed) < MIN_WORD_LENGTH
             \/ Len(trimmed) > MAX_WORD_LENGTH
          THEN [valid |-> FALSE, normalized |-> <<>>, error |-> "length"]
          ELSE IF ~RegexWord(trimmed)
          THEN [valid |-> FALSE, normalized |-> <<>>, error |-> "not Cyrillic"]
          ELSE [valid |-> TRUE, normalized |-> toUpperCase(trimmed), error |-> Null]

\* Mutant of validateGuessInputThrows: only the falsy values are returned
\* for before the word is trimmed.
validateGuessInputThrowsUnguarded(word) == ~Falsy(word) /\ word.type # "string"

\* Whether validateGuessInput throws: word.trim() is a TypeError for a value
\* that is no string, and is reached only past the guard on !word and
\* typeof word. No other validator reads a member of its argument.
validateGuessInputThrows(word) ==
  ~(Falsy(word) \/ word.type # "string") /\ word.type # "string"

\* A room id value: what the UUID pattern looks at in a string (the
\* 8-4-4-4-12 layout, hexadecimal digits, the version and variant digits).
JsId(type, layout, hex, version, variant) ==
  [type |-> type, empty |-> FALSE, layout |-> layout, hex |-> hex,
   version |-> version, variant |-> variant]
JsEmptyId == [JsId("string", FALSE, TRUE, "0", "0") EXCEPT !.empty = TRUE]
JsNullId == JsId("null", FALSE, FALSE, "0", "0")

\* VALIDATION_CONFIG.REGEX.UUID.test
RegexUuid(id) ==
  /\ id.layout
  /\ id.hex
  /\ id.version \in {"1", "2", "3", "4", "5"}
  /\ id.variant \in {"8", "9", "a", "b", "A", "B"}

\* validateUUID
validateUUID(uuid) ==
  IF uuid.type \in {"null", "undefined"} \/ uuid.empty \/ uuid.type # "string"
  THEN FALSE
  ELSE RegexUuid(uuid)

\* ------------------------------------------------------------ error handler

\* An error object as handleError reads it: whether it is a GameError, its
\* code, and which of the texts handleError looks for its message contains.
RawError(code, tokens) == [gameError |-> FALSE, code |-> code, tokens |-> tokens]
GameError(code) == [gameError |-> TRUE, code |-> code, tokens |-> {}]

\* ERROR_MESSAGES, its keys in order.
ERROR_MESSAGES ==
  <<"INVALID_INPUT", "NOT_YOUR_TURN", "CELL_ALREADY_REVEALED", "ROOM_NOT_FOUND",
    "ROOM_FULL", "ROOM_ALREADY_ACTIVE", "NOT_A_PLAYER", "CANNOT_JOIN_OWN_GAME",
    "INVALID_COORDINATES", "GAME_NOT_FOUND_OR_INACTIVE", "DATABASE_ERROR",
    "AUTHENTICATION_FAILED", "INTERNAL_ERROR", "UNKNOWN_ERROR", "NETWORK_ERROR",
    "TIMEOUT_ERROR">>

\* The first key of ERROR_MESSAGES the message includes, or Null.
RECURSIVE FirstCodeIn(_, _)
FirstCodeIn(tokens, i) ==
  IF i > Len(ERROR_MESSAGES) THEN Null
  ELSE IF ERROR_MESSAGES[i] \in tokens THEN ERROR_MESSAGES[i]
  ELSE FirstCodeIn(tokens, i + 1)

\* Mutant of toGameError: the error is passed on as it is.
toGameErrorPassing(error) == error

\* handleError of the error handler: any error to a GameError.
toGameError(error) ==
  IF error.gameError THEN error
  ELSE IF error.code = "PGRST116" THEN GameError("NOT_FOUND")
  ELSE IF error.tokens \cap {"JWT", "auth"} # {} THEN GameError("AUTH_ERROR")
  ELSE IF error.tokens \cap {"network", "Failed to fetch"} # {}
  THEN GameError("NETWORK_ERROR")
  ELSE IF "timeout" \in error.tokens THEN GameError("TIMEOUT_ERROR")
  ELSE IF FirstCodeIn(error.tokens, 1) # Null
  THEN GameError(FirstCodeIn(error.tokens, 1))
  ELSE GameError("UNKNOWN_ERROR")

\* ------------------------------------------------------------------ gateway

\* retryOperation(operation, maxRetries = 3, delay = 1000)
MaxRetries == 3
RetryDelay == 1000

GatewayOps == {"createGame", "joinGame", "revealCell", "validateGuess", "getGameState"}

\* The gateway functions that run their remote call through retryOperation.
RetriedOps == {"createGame", "joinGame", "revealCell", "validateGuess"}

\* Mutant of RetryCeilingReached: one attempt more than the ceiling.
RetryCeilingPassed(attempt) == attempt = MaxRetries + 1

\* retryOperation: attempt === maxRetries
RetryCeilingReached(attempt) == attempt = MaxRetries

\* Mutant of IsRetried: every error is retried.
IsRetriedAlways(gameError) == TRUE

\* retryOperation: the error codes that are retried.
IsRetried(gameError) == gameError.code \in {"NETWORK_ERROR", "TIMEOUT_ERROR"}

\* Mutant of RetryWait: the same wait before every attempt.
RetryWaitConstant(attempt) == RetryDelay

\* retryOperation: the wait after the failure of an attempt.
RetryWait(attempt) == RetryDelay * attempt

\* createGame(wordLength = 5): the default of the parameter.
DefaultWordLength(wordLength) ==
  IF wordLength.type = "undefined" THEN JsNumber(5) ELSE wordLength

\* Mutant of InputError: getGameState and joinGame do not check the room id.
InputErrorUncheckedId(op, args) ==
  CASE op = "createGame" ->
         ~validateWordLength(DefaultWordLength(args.wordLength)).valid
    [] op = "revealCell" ->
         ~validateUUID(args.roomId) \/ ~validateCellCoordinates(args.row, args.col).valid
    [] op = "validateGuess" ->
         ~validateUUID(args.roomId) \/ ~validateGuessInput(args.word).valid
    [] OTHER -> FALSE

\* The validation each gateway function does before its remote call:
\* TRUE when it throws GameError('INVALID_INPUT').
InputError(op, args) ==
  CASE op = "createGame" ->
         ~validateWordLength(DefaultWordLength(args.wordLength)).valid
    [] op = "joinGame" -> ~validateUUID(args.roomId)
    [] op = "revealCell" ->
         ~validateUUID(args.roomId) \/ ~validateCellCoordinates(args.row, args.col).valid
    [] op = "validateGuess" ->
         ~validateUUID(args.roomId) \/ ~validateGuessInput(args.word).valid
    [] op = "getGameState" -> ~validateUUID(args.roomId)
    [] OTHER -> FALSE

\* The call ends: a value is returned or a GameError is thrown to the caller.
Returned(g) ==
  [g EXCEPT !.pc = "done", !.result = [kind |-> "value", code |-> Null,
                                       from |-> "response"]]
Thrown(g, gameError, from) ==
  [g EXCEPT !.pc = "done", !.result = [kind |-> "error", code |-> gameError.code,
                                       from |-> from],
            !.thrown = gameError]

\* A gateway function is called: validation, then the first remote call.
GatewayStart(op, args) ==
  LET g == [NoGateway EXCEPT !.op = op, !.args = args]
  IN IF InputError(op, args)
     THEN Thrown(g, GameError("INVALID_INPUT"), "validation")
     ELSE [g EXCEPT !.pc = "calling", !.attempt = 1, !.calls = 1]

\* The remote call of the current attempt throws: the catch of
\* retryOperation, then the catch of the gateway function.
GatewayCatch(g, error) ==
  LET gameError == toGameError(error)
      g1 == [g EXCEPT !.errors = Append(@, gameError.code)]
  IN IF g.op \notin RetriedOps THEN Thrown(g1, gameError, "thrown")
     ELSE IF RetryCeilingReached(g.attempt) THEN Thrown(g1, gameError, "thrown")
     ELSE IF IsRetried(gameError)
     THEN [g1 EXCEPT !.pc = "waiting", !.waits = Append(@, RetryWait(g.attempt))]
     ELSE Thrown(g1, gameError, "thrown")

\* The wait of retryOperation is over: the next attempt calls again.
GatewayRetry(g) ==
  [g EXCEPT !.pc = "calling", !.attempt = @ + 1, !.calls = @ + 1]

\* Reading a property of a null result throws a TypeError, which the catch
\* of the gateway function hands to handleError.
TypeErrorOnNull == RawError(Null, {})

\* The remote call answers with data: what the gateway function makes of it.
GatewayAnswer(g, data) ==
  CASE g.op = "getGameState" ->
         IF data.kind = "null"
         THEN Thrown(g, GameError("ROOM_NOT_FOUND"), "response")
         ELSE Returned(g)
    [] data.kind = "null" -> Thrown(g, toGameError(TypeErrorOnNull), "response")
    [] g.op = "createGame" -> Returned(g)
    [] OTHER ->
         IF data.kind = "rejected"
         THEN Thrown(g, GameError(data.error), "response")
         ELSE Returned(g)

\* ---------------------------------------------- the gateway on arbitrary inputs

WordLengthInputs ==
  {JsNumber(4), JsNumber(5), JsNumber(8), JsNumber(9), JsFraction, JsString(5),
   JsUndefined}

ValidId == JsId("string", TRUE, TRUE, "4", "a")

RoomIdInputs ==
  {ValidId, JsId("string", TRUE, TRUE, "7", "a"), JsId("string", TRUE, TRUE, "4", "c"),
   JsId("string", FALSE, TRUE, "4", "a"), JsId("string", TRUE, FALSE, "4", "a"),
   JsEmptyId, JsNullId}

CoordinateInputs ==
  {JsNumber(-1), JsNumber(0), JsNumber(4), JsNumber(5), JsFraction, JsString(1)}

FiveLetters == <<"cyr-a", "CYR-YA", "cyr-yo", "cyr-ya", "CYR-A">>

WordInputs ==
  {JsText(FiveLetters), JsText(<<" ">> \o FiveLetters \o <<" ">>),
   JsText(SubSeq(FiveLetters, 1, 4)), JsText(FiveLetters \o SubSeq(FiveLetters, 1, 4)),
   JsText(<<"x">> \o SubSeq(FiveLetters, 1, 4)), JsText(<<" ", " ">>),
   JsText(<<>>), JsNoText("null")}

\* The arguments each gateway function may be called with.
GatewayArgs(op) ==
  CASE op = "createGame" ->
         {[NoArgs EXCEPT !.wordLength = n] : n \in WordLengthInputs}
    [] op = "revealCell" ->
         {[NoArgs EXCEPT !.roomId = id, !.row = r, !.col = c] :
            id \in {ValidId, JsNullId}, r \in CoordinateInputs, c \in CoordinateInputs}
    [] op = "validateGuess" ->
         {[NoArgs EXCEPT !.roomId = id, !.word = w] :
            id \in {ValidId, JsEmptyId}, w \in WordInputs}
    [] OTHER -> {[NoArgs EXCEPT !.roomId = id] : id \in RoomIdInputs}

\* The errors a remote call may throw, and the data it may answer with.
RawErrors ==
  {RawError(code, tokens) :
     code \in {Null, "PGRST116"},
     tokens \in SUBSET {"auth", "network", "timeout", "ROOM_FULL"}}

Answers ==
  {[kind |-> "ok", error |-> Null], [kind |-> "null", error |-> Null],
   [kind |-> "rejected", error |-> "ROOM_FULL"],
   [kind |-> "rejected", error |-> "NOT_YOUR_TURN"]}

nonGatewayVars ==
  <<clientVars, subscribed, serverVars, fetches, rpc, timers, schemaVars, createFlow,
    bridge, validation, play, debouncer>>

\* A gateway function is called with some arguments.
GatewayCall ==
  /\ gateway.pc = "idle"
  /\ \E op \in GatewayOps : \E args \in GatewayArgs(op) :
       gateway' = GatewayStart(op, args)
  /\ UNCHANGED nonGatewayVars

\* The remote call of the current attempt throws.
RemoteThrows ==
  /\ gateway.pc = "calling"
  /\ \E error \in RawErrors : gateway' = GatewayCatch(gateway, error)
  /\ UNCHANGED nonGatewayVars

\* The remote call of the current attempt answers.
RemoteAnswers ==
  /\ gateway.pc = "calling"
  /\ \E data \in Answers :
       /\ data.kind = "rejected" => gateway.op \notin {"createGame", "getGameState"}
       /\ gateway' = GatewayAnswer(gateway, data)
  /\ UNCHANGED nonGatewayVars

\* The timer of retryOperation's wait fires.
RetryTimerFires ==
  /\ gateway.pc = "waiting"
  /\ gateway' = GatewayRetry(gateway)
  /\ UNCHANGED nonGatewayVars

\* The caller has the outcome; the gateway is free for the next call.
GatewayDone ==
  /\ gateway.pc = "done"
  /\ gateway' = NoGateway
  /\ UNCHANGED nonGatewayVars

NextGateway ==
  \/ GatewayCall
  \/ RemoteThrows
  \/ RemoteAnswers
  \/ RetryTimerFires
  \/ GatewayDone

InitGateway == Init /\ pushShape = "board_state" /\ fetchShape = "board_state"

\* The gateway on its own, called with arbitrary arguments against a
\* backend that answers or fails in any way.
SpecGateway == InitGateway /\ [][NextGateway]_vars

\* The same, with what the client itself does happening eventually: the
\* timer of a retry wait fires, a finished call is handed to its caller.
\* Whether the backend ever answers is not up to the client.
SpecGatewayFair ==
  SpecGateway /\ WF_vars(RetryTimerFires) /\ WF_vars(GatewayDone)

\* ------------------------------------------ the validators on arbitrary inputs

\* Values validateWordLength is called with: integers around the range,
\* a number that is no integer, strings, null and undefined.
WordLengthValues ==
  {JsNumber(n) : n \in 3..10}
  \cup {JsFraction, JsString(5), JsString(9), JsUndefined,
        [type |-> "null", int |-> FALSE, n |-> 0]}

\* A word of n letters, one of them (at place oddAt, if any) being odd.
WordOf(n, oddAt, odd) ==
  [i \in 1..n |-> IF i = oddAt THEN odd
                  ELSE IF i % 2 = 0 THEN "cyr-a" ELSE "CYR-YA"]

Spaces(n) == [i \in 1..n |-> " "]

\* Values validateGuessInput is called with: words of lengths around the
\* range, with or without white space around them, with a Latin letter, a
\* space, a Cyrillic letter outside the pattern or a letter of the pattern
\* at the first or the third place; and values that are no strings.
GuessValues ==
  {JsText(Spaces(lead) \o WordOf(n, oddAt, odd) \o Spaces(trail)) :
     lead \in {0, 1}, trail \in {0, 2}, n \in {0, 4, 5, 8, 9}, oddAt \in {0, 1, 3},
     odd \in {"x", " ", "cyr-i-ukr", "cyr-yo"}}
  \cup {JsNoText("null"), JsNoText("undefined"), JsNoText("number")}

nonValidationVars ==
  <<clientVars, subscribed, serverVars, fetches, rpc, timers, schemaVars, createFlow,
    gateway, bridge, play, debouncer>>

\* validateWordLength is called.
CallValidateWordLength ==
  /\ \E length \in WordLengthValues :
       validation' = [fn |-> "validateWordLength", input |-> length,
                      output |-> validateWordLength(length), threw |-> FALSE]
  /\ UNCHANGED nonValidationVars

\* validateCellCoordinates is called.
CallValidateCellCoordinates ==
  /\ \E row \in CoordinateInputs : \E col \in CoordinateInputs :
       validation' = [fn |-> "validateCellCoordinates",
                      input |-> [row |-> row, col |-> col],
                      output |-> validateCellCoordinates(row, col), threw |-> FALSE]
  /\ UNCHANGED nonValidationVars

\* validateGuessInput is called.
CallValidateGuessInput ==
  /\ \E word \in GuessValues :
       validation' = [fn |-> "validateGuessInput", input |-> word,
                      output |-> validateGuessInput(word),
                      threw |-> validateGuessInputThrows(word)]
  /\ UNCHANGED nonValidationVars

\* validateUUID is called: what it returns is a boolean, no object.
CallValidateUUID ==
  /\ \E uuid \in RoomIdInputs :
       validation' = [fn |-> "validateUUID", input |-> uuid,
                      output |-> [boolean |-> validateUUID(uuid)], threw |-> FALSE]
  /\ UNCHANGED nonValidationVars

NextValidation ==
  \/ CallValidateWordLength
  \/ CallValidateCellCoordinates
  \/ CallValidateGuessInput
  \/ CallValidateUUID

InitValidation == Init /\ pushShape = "board_state" /\ fetchShape = "board_state"

\* The validators on their own, called with arbitrary arguments.
SpecValidation == InitValidation /\ [][NextValidation]_vars

\* ------------------------------------------- RealtimeManager on its own

\* The channels created so far (supabase.channel(...).subscribe(...) calls).
ChannelsCreated(b) == Cardinality({k \in 1..MaxChannels : b.status[k] # "none"})

\* RealtimeManager.unsubscribeFromRoom up to its await: the channel the map
\* holds for the room is handed to supabase.removeChannel.
unsubscribeFromRoom(b) ==
  IF b.channels = 0 THEN b
  ELSE [b EXCEPT !.status[b.channels] = "leaving", !.pending = Append(@, b.channels)]

\* RealtimeManager.unsubscribeFromRoom after its await: removeChannel has
\* resolved for the i-th waiting call, and the entries of the room are deleted.
unsubscribeFromRoomResumes(b, i) ==
  [b EXCEPT !.status[b.pending[i]] = "removed",
            !.channels = 0,
            !.pending = SubSeq(@, 1, i - 1) \o SubSeq(@, i + 1, Len(@))]

\* RealtimeManager.subscribeToRoom
subscribeToRoom(b) ==
  LET b1 == IF b.channels # 0 THEN unsubscribeFromRoom(b) ELSE b
      channel == ChannelsCreated(b) + 1
  IN [b1 EXCEPT !.status[channel] = "open", !.channels = channel]

\* Mutant of BridgeCallbacks: onGameFinished for every update whose new
\* status is finished.
BridgeCallbacksOnFinishedStatus(payload) ==
  LET newRecord == payload.new
      oldRecord == payload.old
      isUpdate == payload.eventType = "UPDATE"
  IN <<[callback |-> "onGameUpdate", record |-> newRecord]>>
     \o (IF isUpdate /\ oldRecord.player2_id = Null /\ newRecord.player2_id # Null
         THEN <<[callback |-> "onPlayerJoined", record |-> newRecord]>> ELSE <<>>)
     \o (IF isUpdate /\ oldRecord.board_state # newRecord.board_state
         THEN <<[callback |-> "onCellRevealed", record |-> newRecord]>> ELSE <<>>)
     \o (IF isUpdate /\ newRecord.status = "finished"
         THEN <<[callback |-> "onGameFinished", record |-> newRecord]>> ELSE <<>>)

\* RealtimeManager.handleGameUpdate, the callbacks it invokes for one raw
\* notification, in the order of the calls, each with the record it passes.
BridgeCallbacks(payload) ==
  LET newRecord == payload.new
      oldRecord == payload.old
      isUpdate == payload.eventType = "UPDATE"
  IN <<[callback |-> "onGameUpdate", record |-> newRecord]>>
     \o (IF isUpdate /\ oldRecord.player2_id = Null /\ newRecord.player2_id # Null
         THEN <<[callback |-> "onPlayerJoined", record |-> newRecord]>> ELSE <<>>)
     \o (IF isUpdate /\ oldRecord.board_state # newRecord.board_state
         THEN <<[callback |-> "onCellRevealed", record |-> newRecord]>> ELSE <<>>)
     \o (IF isUpdate /\ oldRecord.status = "active" /\ newRecord.status = "finished"
         THEN <<[callback |-> "onGameFinished", record |-> newRecord]>> ELSE <<>>)

\* RealtimeManager.handleGameUpdate for a notification {eventType, old, new}
\* that arrives on a channel: the callbacks, then the unsubscribe on DELETE.
BridgeNotify(b, channel, eventType, old, new) ==
  LET payload == [eventType |-> eventType,
                  old |-> Snapshot(old, "board_state"),
                  new |-> Snapshot(new, "board_state")]
      b1 == [b EXCEPT !.last = [channel |-> channel, eventType |-> eventType,
                                old |-> old, new |-> new,
                                log |-> BridgeCallbacks(payload)],
                      !.late = @ \/ (channel \in b.deletedOn /\ b.pending = <<>>)]
  IN IF eventType = "DELETE"
     THEN [unsubscribeFromRoom(b1) EXCEPT !.deletedOn = @ \cup {channel}]
     ELSE b1

\* The Error objects a consumer callback may throw: a GameError, or a runtime
\* error that carries no code.
ThrownErrors ==
  {GameError("ROOM_FULL"), RawError(Null, {}), RawError(Null, {"network"})}

\* Mutant of BridgeNotifyThrows: the catch block logs the error and does not
\* call onError.
BridgeNotifyThrowsUnreported(b, channel, eventType, old, new, at, error) ==
  LET payload == [eventType |-> eventType,
                  old |-> Snapshot(old, "board_state"),
                  new |-> Snapshot(new, "board_state")]
      calls == BridgeCallbacks(payload)
  IN [b EXCEPT !.last = [channel |-> channel, eventType |-> eventType,
                         old |-> old, new |-> new,
                         log |-> SubSeq(calls, 1, at),
                         threw |-> at, escaped |-> FALSE],
               !.late = @ \/ (channel \in b.deletedOn /\ b.pending = <<>>)]

\* RealtimeManager.handleGameUpdate when the at-th callback it invokes throws
\* an Error object: the rest of the try block is skipped (the later
\* callbacks, the unsubscribe on DELETE), the catch block logs error.message
\* and calls onError with handleError(error). The record of the notification
\* notes which callback threw and whether an exception left the method.
BridgeNotifyThrows(b, channel, eventType, old, new, at, error) ==
  LET payload == [eventType |-> eventType,
                  old |-> Snapshot(old, "board_state"),
                  new |-> Snapshot(new, "board_state")]
      calls == BridgeCallbacks(payload)
  IN [b EXCEPT !.last = [channel |-> channel, eventType |-> eventType,
                         old |-> old, new |-> new,
                         log |-> SubSeq(calls, 1, at)
                                 \o <<[callback |-> "onError",
                                       record |-> toGameError(error)]>>,
                         threw |-> at, escaped |-> FALSE],
               !.late = @ \/ (channel \in b.deletedOn /\ b.pending = <<>>)]

\* handleError reads error.code of its argument without a guard: on null or
\* undefined the read throws a TypeError.
handleErrorThrows(err) == err = "undefined"

\* The callback subscribeToRoom passes to channel.subscribe: (status, err).
SubscribeCallback(b, status, err) ==
  [b EXCEPT !.report =
     CASE status = "CHANNEL_ERROR" ->
            IF handleErrorThrows(err)
            THEN [status |-> status, err |-> err, onError |-> 0, escaped |-> TRUE,
                  created |-> 0]
            ELSE [status |-> status, err |-> err, onError |-> 1, escaped |-> FALSE,
                  created |-> 0]
       [] status = "TIMED_OUT" ->
            [status |-> status, err |-> err, onError |-> 1, escaped |-> FALSE,
             created |-> 0]
       [] OTHER ->
            [status |-> status, err |-> err, onError |-> 0, escaped |-> FALSE,
             created |-> 0]]

\* Room rows the notifications are made of.
RowWaiting == [NoRoom EXCEPT !.status = "waiting", !.player1_id = Me, !.current_player = 1]
RowActive == [RowWaiting EXCEPT !.status = "active", !.player2_id = Opp]
RowRevealed == [RowActive EXCEPT !.revealed = {1}]
RowFinished == [RowRevealed EXCEPT !.status = "finished", !.winner = 1]
RowCancelled == [RowWaiting EXCEPT !.status = "cancelled"]
BridgeRows == {RowWaiting, RowActive, RowRevealed, RowFinished, RowCancelled}

\* The notifications a channel may deliver: any UPDATE between two rows
\* (repeated and out-of-date ones included), the INSERT and the DELETE.
BridgePayloads ==
  {[eventType |-> "UPDATE", old |-> old, new |-> new] :
     old \in BridgeRows, new \in BridgeRows}
  \cup {[eventType |-> "INSERT", old |-> NoRoom, new |-> RowWaiting]}
  \cup {[eventType |-> "DELETE", old |-> old, new |-> NoRoom] :
          old \in {RowFinished, RowCancelled}}

\* The statuses a channel reports to the subscribe callback, with the error
\* argument: an Error object, or none (the parameter is optional).
ChannelReports ==
  {<<"SUBSCRIBED", "undefined">>, <<"CHANNEL_ERROR", "object">>,
   <<"CHANNEL_ERROR", "undefined">>, <<"TIMED_OUT", "undefined">>,
   <<"CLOSED", "undefined">>}

nonBridgeVars ==
  <<clientVars, subscribed, serverVars, fetches, rpc, timers, schemaVars, createFlow,
    gateway, validation, play, debouncer>>

\* The application subscribes to the room.
BridgeSubscribe ==
  /\ ChannelsCreated(bridge) < MaxChannels
  /\ bridge.channels # 0 => Len(bridge.pending) < MaxPending
  /\ bridge' = subscribeToRoom(bridge)
  /\ UNCHANGED nonBridgeVars

\* The application unsubscribes from the room (unsubscribeAll, or the
\* function subscribeToGameUpdates returns).
BridgeUnsubscribe ==
  /\ bridge.channels # 0
  /\ Len(bridge.pending) < MaxPending
  /\ bridge' = unsubscribeFromRoom(bridge)
  /\ UNCHANGED nonBridgeVars

\* removeChannel resolves for one of the waiting unsubscribeFromRoom calls.
BridgeUnsubscribeResumes ==
  /\ \E i \in 1..Len(bridge.pending) : bridge' = unsubscribeFromRoomResumes(bridge, i)
  /\ UNCHANGED nonBridgeVars

\* A channel that was not removed yet delivers a notification.
BridgeNotification ==
  /\ \E channel \in 1..MaxChannels : \E p \in BridgePayloads :
       /\ bridge.status[channel] \in {"open", "leaving"}
       /\ p.eventType = "DELETE" /\ bridge.channels # 0
            => Len(bridge.pending) < MaxPending
       /\ bridge' = BridgeNotify(bridge, channel, p.eventType, p.old, p.new)
  /\ UNCHANGED nonBridgeVars

\* A channel that was not removed yet delivers a notification, and one of the
\* consumer callbacks throws.
BridgeNotificationThrows ==
  /\ \E channel \in 1..MaxChannels : \E p \in BridgePayloads :
     \E error \in ThrownErrors :
       LET calls == BridgeCallbacks([eventType |-> p.eventType,
                                     old |-> Snapshot(p.old, "board_state"),
                                     new |-> Snapshot(p.new, "board_state")])
       IN \E at \in 1..Len(calls) :
            /\ bridge.status[channel] \in {"open", "leaving"}
            /\ bridge' = BridgeNotifyThrows(bridge, channel, p.eventType, p.old,
                                            p.new, at, error)
  /\ UNCHANGED nonBridgeVars

\* A channel that was not removed yet reports its status.
BridgeChannelStatus ==
  /\ \E channel \in 1..MaxChannels : \E r \in ChannelReports :
       /\ bridge.status[channel] \in {"open", "leaving"}
       /\ bridge' = SubscribeCallback(bridge, r[1], r[2])
  /\ UNCHANGED nonBridgeVars

NextBridge ==
  \/ BridgeSubscribe
  \/ BridgeUnsubscribe
  \/ BridgeUnsubscribeResumes
  \/ BridgeNotification
  \/ BridgeChannelStatus

InitBridge == Init /\ pushShape = "board_state" /\ fetchShape = "board_state"

\* RealtimeManager on its own: subscribed, unsubscribed and notified in any
\* order, its callbacks recorded.
SpecBridge == InitBridge /\ [][NextBridge]_vars

NextBridgeThrow ==
  \/ BridgeSubscribe
  \/ BridgeUnsubscribeResumes
  \/ BridgeNotification
  \/ BridgeNotificationThrows

\* RealtimeManager subscribed and notified, with consumer callbacks that may
\* throw.
SpecBridgeThrow == InitBridge /\ [][NextBridgeThrow]_vars

\* --------------------------------------------------------------- debouncer

\* The delay the application passes with each key, in milliseconds.
DelayOf(key) ==
  CASE key = "loadGameState" -> 500
    [] key = "refreshGameState" -> 100
    [] OTHER -> 300

\* clearTimeout(id): the timer is no longer scheduled.
clearTimeout(d, id) ==
  [d EXCEPT !.scheduled = {t \in @ : t.id # id}]

\* Mutant of debounce: the timer registered for the key is not cancelled.
debounceWithoutCancel(d, key, delay) ==
  LET id == Len(d.calls) + 1
  IN [d EXCEPT !.scheduled = @ \cup {[id |-> id, key |-> key, due |-> d.now + delay]},
               !.timers[key] = id,
               !.calls = Append(@, [key |-> key, at |-> d.now, delay |-> delay])]

\* AppDebouncer.debounce(key, callback, delay): the timer of the key is
\* cancelled, a new one is scheduled and registered. The timer id and the
\* callback are identified by the number of the call.
debounce(d, key, delay) ==
  LET d1 == IF d.timers[key] # 0 THEN clearTimeout(d, d.timers[key]) ELSE d
      id == Len(d.calls) + 1
  IN [d1 EXCEPT !.scheduled = @ \cup {[id |-> id, key |-> key, due |-> d.now + delay]},
                !.timers[key] = id,
                !.calls = Append(@, [key |-> key, at |-> d.now, delay |-> delay])]

\* The function debounce passes to setTimeout: the callback runs (it may
\* throw, the error is logged), then the key is deleted from the map.
DebounceTimerCallback(d, t, threw) ==
  [d EXCEPT !.scheduled = @ \ {t},
            !.ran = Append(@, [id |-> t.id, key |-> t.key, at |-> d.now,
                               threw |-> threw]),
            !.timers[t.key] = 0]

\* AppDebouncer.clear(): every registered timer is cancelled, the map emptied.
DebouncerClear(d) ==
  [d EXCEPT !.scheduled = {t \in @ : \A key \in DebounceKeys : d.timers[key] # t.id},
            !.timers = [key \in DebounceKeys |-> 0]]

nonDebouncerVars ==
  <<clientVars, subscribed, serverVars, fetches, rpc, timers, schemaVars, createFlow,
    gateway, bridge, validation, play>>

\* A gesture or a menu entry asks for a debounced refresh.
DebounceCall ==
  /\ Len(debouncer.calls) < MaxDebounceCalls
  /\ \E key \in DebounceKeys : debouncer' = debounce(debouncer, key, DelayOf(key))
  /\ UNCHANGED nonDebouncerVars

\* A scheduled timer whose delay has elapsed fires.
DebounceTimerFires ==
  /\ \E t \in debouncer.scheduled : \E threw \in BOOLEAN :
       /\ t.due <= debouncer.now
       /\ debouncer' = DebounceTimerCallback(debouncer, t, threw)
  /\ UNCHANGED nonDebouncerVars

\* App.cleanup calls debouncer.clear().
DebounceClear ==
  /\ debouncer' = DebouncerClear(debouncer)
  /\ UNCHANGED nonDebouncerVars

\* Time passes; a timer that is due may fire late.
DebounceTick ==
  /\ debouncer.now < MaxTime
  /\ debouncer' = [debouncer EXCEPT !.now = @ + TickMs]
  /\ UNCHANGED nonDebouncerVars

NextDebounce ==
  \/ DebounceCall
  \/ DebounceTimerFires
  \/ DebounceClear
  \/ DebounceTick

InitDebounce == Init /\ pushShape = "board_state" /\ fetchShape = "board_state"

\* AppDebouncer on its own: called, cleared, its timers firing as time passes.
SpecDebounce == InitDebounce /\ [][NextDebounce]_vars

\* ------------------------------------------------- the moves of this user

\* Moves of this user that are started at most.
MaxPlayCalls == 1

\* The cell of the modelled board at (row, col): the board is kept row by
\* row, and the model keeps its first NumCells cells.
CellAt(row, col) == row.n * 5 + col.n + 1

\* This user's player number in the authority's row (0: not a player).
MyNumber(row) ==
  IF row.player1_id = Me THEN 1 ELSE IF row.player2_id = Me THEN 2 ELSE 0

\* Mutant of GridForwardsClick: the interactive flag is not consulted.
GridForwardsClickWhenLocked(grid, row, col) ==
  /\ validateCellCoordinates(row, col).valid
  /\ ~grid.boardState[CellAt(row, col)].revealed

\* GameGrid.handleCellClick: whether the click reaches the handler App set.
GridForwardsClick(grid, row, col) ==
  /\ validateCellCoordinates(row, col).valid
  /\ ~grid.boardState[CellAt(row, col)].revealed
  /\ grid.isInteractive

\* The clicks a cell element or a caller may hand to the board: any pair of
\* values, the well-formed ones within the modelled cells.
ClickInputs ==
  {rc \in CoordinateInputs \X CoordinateInputs :
     validateCellCoordinates(rc[1], rc[2]).valid => CellAt(rc[1], rc[2]) \in Cells}

\* A remote call of a move starts (the handler runs up to its await).
StartCall(op, row, col) ==
  [play EXCEPT !.calls = @ \cup {[op |-> op, row |-> row, col |-> col]},
               !.started = @ + 1]

\* The handler that awaited the call runs on: the call is over.
EndCall(call) == [play EXCEPT !.calls = @ \ {call}]

\* A click on the board: GameGrid.handleCellClick and, when it forwards the
\* click, App.handleCellClick up to its await (revealCell is called).
BoardClick ==
  /\ \E rc \in ClickInputs :
       IF GridForwardsClick(gameGrid, rc[1], rc[2])
       THEN /\ play.started < MaxPlayCalls
            /\ play' = StartCall("revealCell", rc[1], rc[2])
       ELSE UNCHANGED play
  /\ UNCHANGED <<clientVars, subscribed, serverVars, fetches, rpc, timers, schemaVars,
                 createFlow, gateway, bridge, validation, debouncer>>

\* revealCell returns: the authority opened the cell for the player whose
\* turn it is; App.handleCellClick highlights the cell and hides the loader.
RevealCellReturns ==
  /\ \E call \in play.calls :
       /\ call.op = "revealCell"
       /\ room.status = "active"
       /\ room.current_player = MyNumber(room)
       /\ CellAt(call.row, call.col) \notin room.revealed
       /\ room' = [room EXCEPT !.revealed = @ \cup {CellAt(call.row, call.col)}]
       /\ Emit(room, room')
       /\ play' = EndCall(call)
  /\ UNCHANGED <<clientVars, subscribed, moves, fetches, rpc, timers, schemaVars,
                 createFlow, gateway, bridge, validation, debouncer>>

\* revealCell throws (rejected by the authority, or the network failed):
\* the catch block of App.handleCellClick.
RevealCellFails ==
  /\ \E call \in play.calls :
       /\ call.op = "revealCell"
       /\ play' = EndCall(call)
  /\ SetClient(handleError(Client))
  /\ UNCHANGED <<subscribed, serverVars, fetches, rpc, timers, schemaVars,
                 createFlow, gateway, bridge, validation, debouncer>>

\* The submit button of an enabled GuessInput with a word in the field:
\* handleSubmit validates it and App.handleGuessSubmit calls validateGuess.
GuessSubmit ==
  /\ guessInput.isEnabled
  /\ \E word \in {JsText(FiveLetters), JsText(<<"x">>)} :
       IF validateGuessInput(word).valid
       THEN /\ play.started < MaxPlayCalls
            /\ play' = StartCall("validateGuess", JsUndefined, JsUndefined)
       ELSE UNCHANGED play
  /\ UNCHANGED <<clientVars, subscribed, serverVars, fetches, rpc, timers, schemaVars,
                 createFlow, gateway, bridge, validation, debouncer>>

\* validateGuess returns: the word was right and the room finishes, or it
\* was wrong and the turn passes; App.handleGuessSubmit shows a notification.
ValidateGuessReturns ==
  /\ \E call \in play.calls : \E correct \in BOOLEAN :
       /\ call.op = "validateGuess"
       /\ room.status = "active"
       /\ room.current_player = MyNumber(room)
       /\ room' = IF correct
                  THEN [room EXCEPT !.status = "finished", !.winner = MyNumber(room)]
                  ELSE [room EXCEPT !.current_player = 3 - @]
       /\ Emit(room, room')
       /\ play' = EndCall(call)
  /\ UNCHANGED <<clientVars, subscribed, moves, fetches, rpc, timers, schemaVars,
                 createFlow, gateway, bridge, validation, debouncer>>

\* validateGuess throws: the catch block of App.handleGuessSubmit.
ValidateGuessFails ==
  /\ \E call \in play.calls :
       /\ call.op = "validateGuess"
       /\ play' = EndCall(call)
  /\ SetClient(handleError(Client))
  /\ UNCHANGED <<subscribed, serverVars, fetches, rpc, timers, schemaVars,
                 createFlow, gateway, bridge, validation, debouncer>>

\* The skip button of an enabled GuessInput: App.handleSkipTurn calls skipTurn.
SkipTurn ==
  /\ guessInput.isEnabled
  /\ play.started < MaxPlayCalls
  /\ play' = StartCall("skipTurn", JsUndefined, JsUndefined)
  /\ UNCHANGED <<clientVars, subscribed, serverVars, fetches, rpc, timers, schemaVars,
                 createFlow, gateway, bridge, validation, debouncer>>

\* skipTurn returns: the turn passes; App.handleSkipTurn shows a notification.
SkipTurnReturns ==
  /\ \E call \in play.calls :
       /\ call.op = "skipTurn"
       /\ room.status = "active"
       /\ room.current_player = MyNumber(room)
       /\ room' = [room EXCEPT !.current_player = 3 - @]
       /\ Emit(room, room')
       /\ play' = EndCall(call)
  /\ UNCHANGED <<clientVars, subscribed, moves, fetches, rpc, timers, schemaVars,
                 createFlow, gateway, bridge, validation, debouncer>>

\* skipTurn throws: the catch block of App.handleSkipTurn.
SkipTurnFails ==
  /\ \E call \in play.calls :
       /\ call.op = "skipTurn"
       /\ play' = EndCall(call)
  /\ SetClient(handleError(Client))
  /\ UNCHANGED <<subscribed, serverVars, fetches, rpc, timers, schemaVars,
                 createFlow, gateway, bridge, validation, debouncer>>

\* App.handleShareRoomClick: an error is shown when no room is bound; the
\* share dialogue or a notification otherwise.
ShareRoom ==
  /\ SetClient(IF app.roomId = Null THEN [Client EXCEPT !.ui.errorMessage = TRUE]
               ELSE Client)
  /\ UNCHANGED <<subscribed, serverVars, fetches, rpc, timers, schemaVars, auxVars>>

\* The channel of the subscribed room reports CHANNEL_ERROR or TIMED_OUT:
\* the subscribe callback calls the onError of App.subscribeToRoom, which is
\* App.handleError, unless handleError threw on the way.
SubscriptionError ==
  /\ subscribed
  /\ \E r \in ChannelReports :
       /\ r[1] \in {"CHANNEL_ERROR", "TIMED_OUT"}
       /\ bridge' = SubscribeCallback(bridge, r[1], r[2])
       /\ SetClient(IF bridge'.report.onError = 1 THEN handleError(Client) ELSE Client)
  /\ UNCHANGED <<subscribed, serverVars, fetches, rpc, timers, schemaVars,
                 createFlow, gateway, validation, play, debouncer>>

NextPlay ==
  \/ OpponentCreates
  \/ OpponentJoins
  \/ ServeFetch
  \/ HandleCreateGame
  \/ CreateTimerFires
  \/ CreateGameReturns
  \/ CreateGameFails
  \/ HandleJoinGame
  \/ JoinGameReturns
  \/ JoinGameFails
  \/ Refresh
  \/ LoadGameStateReturns
  \/ LoadGameStateFails
  \/ DeliverPush
  \/ ErrorTimerFires
  \/ BoardClick
  \/ RevealCellReturns
  \/ RevealCellFails
  \/ GuessSubmit
  \/ ValidateGuessReturns
  \/ ValidateGuessFails
  \/ SkipTurn
  \/ SkipTurnReturns
  \/ SkipTurnFails
  \/ ShareRoom
  \/ SubscriptionError

InitPlay == Init /\ pushShape = "board_state" /\ fetchShape = "board_state"

\* The client from the menu into a game and through this user's moves.
SpecPlay == InitPlay /\ [][NextPlay]_vars

\* ------------------------------------------------------------------ claims

\* What the user sees of the game: the board and its interactivity, the
\* guess input, the turn / score / status view.
View == <<gameGrid, guessInput, turnIndicator>>

ViewOf(c) == <<c.gameGrid, c.guessInput, c.turnIndicator>>

\* No board field under any recognized key.
Malformed(gameState) ==
  gameState.board_state.kind = "null" /\ gameState.field_state.kind = "null"

HasBoardArray(gameState) ==
  \/ gameState.board_state.kind = "array"
  \/ /\ gameState.board_state.kind = "null"
     /\ gameState.field_state.kind \in {"grid", "array"}

\* isMyTurn by identity, for the user and the fields of a snapshot.
TurnByIdentity(userId, currentPlayer, player1Id, player2Id) ==
  /\ userId # Null
  /\ currentPlayer \in {1, 2}
  /\ \/ currentPlayer = 1 /\ userId = player1Id
     \/ currentPlayer = 2 /\ userId = player2Id

MyTurnIn(gameState) ==
  TurnByIdentity(Me, gameState.current_player, gameState.player1_id,
                 gameState.player2_id)

StatusRank(status) ==
  CASE status = "waiting" -> 1
    [] status = "active" -> 2
    [] status \in {"finished", "cancelled"} -> 3
    [] OTHER -> 0

RevealedCount(gameState) ==
  Cardinality({c \in Cells : BoardData(gameState).cells[c].revealed})

\* a is logically later than b: by status first, then by revealed cells.
LaterThan(a, b) ==
  \/ StatusRank(a.status) > StatusRank(b.status)
  \/ /\ StatusRank(a.status) = StatusRank(b.status)
     /\ RevealedCount(a) > RevealedCount(b)


JoinPayloads == {p \in pushes : p.old.player2_id = Null /\ p.new.player2_id # Null}

\* C1: within one room session the "opponent joined" notification is shown
\* at most once, whatever is delivered and however often.
C1_JoinShownAtMostOnce == obs.joinShown <= 1

\* C1 witness: the notification was shown, and the join notification is
\* still deliverable to the subscribed client (a duplicate can follow).
C1_Witness ==
  /\ obs.joinShown = 1
  /\ app.playerJoinedNotificationShown
  /\ subscribed
  /\ JoinPayloads # {}

\* C2: once the pushed join notification has been handled by the first
\* player's client, the "opponent joined" notification has been shown
\* exactly once, also when a pulled snapshot showed the second player first.
C2_JoinShownExactlyOnce ==
  (obs.joinPushHandled /\ app.isFirstPlayer) => obs.joinShown = 1

\* C2 witness: the only notification in flight is the join, and when it was
\* handled the client's previous snapshot (from getGameState) already had
\* the second player; the notification was shown once.
C2_Witness ==
  /\ obs.joinPushHandled
  /\ app.isFirstPlayer
  /\ obs.joinShown = 1
  /\ obs.shownWhen.previousHadPlayer2
  /\ Cardinality(pushes) = 1

\* C3 as stated: the notification is shown only if the flag was not set, the
\* session is the first player and the new snapshot has a second player
\* while the client's previous snapshot had none.
C3_Original ==
  obs.shownWhen.shown =>
    /\ ~obs.shownWhen.flagWasSet
    /\ obs.shownWhen.isFirstPlayer
    /\ obs.shownWhen.newHasPlayer2
    /\ ~obs.shownWhen.previousHadPlayer2

\* C3 amended: the notification is shown only if the flag was not set, the
\* session is the first player and the new row of the change notification
\* has a second player while its old row had none.
C3_ShownOnlyOnJoinTransition ==
  obs.shownWhen.shown =>
    /\ ~obs.shownWhen.flagWasSet
    /\ obs.shownWhen.isFirstPlayer
    /\ obs.shownWhen.newHasPlayer2
    /\ ~obs.shownWhen.oldHadPlayer2

\* C3 witness: the notification was shown on a join notification.
C3_Witness ==
  /\ obs.shownWhen.shown
  /\ obs.shownWhen.newHasPlayer2
  /\ ~obs.shownWhen.oldHadPlayer2
  /\ ~obs.shownWhen.previousHadPlayer2

\* C4: after two snapshots were applied, isMyTurn is the one of the
\* logically later of the two, not of the one that arrived last.
C4_TurnOfLogicallyLatest ==
  (/\ HasBoardArray(app.gameState)
   /\ HasBoardArray(app.previousGameState)
   /\ LaterThan(app.previousGameState, app.gameState))
  => isCurrentUserTurn(turnIndicator) = MyTurnIn(app.previousGameState)

\* C5: once a finished snapshot was applied, the board is not interactive
\* and the input is not enabled, in every later state.
C5_LockedAfterFinished ==
  obs.finishedApplied => (~gameGrid.isInteractive /\ ~guessInput.isEnabled)

\* C6: the final results are surfaced exactly once per finish: never more
\* than once, and once as soon as a finished snapshot was applied.
C6_ResultsExactlyOnce ==
  /\ obs.gameOverShows <= 1
  /\ obs.finishedApplied => obs.gameOverShows = 1

\* C7 as stated: after any snapshot was applied, the board is interactive,
\* and the input enabled, iff isMyTurn and status = active hold for it.
C7_Original ==
  app.gameState # NoSnapshot =>
    /\ gameGrid.isInteractive
         <=> (MyTurnIn(app.gameState) /\ app.gameState.status = "active")
    /\ guessInput.isEnabled
         <=> (MyTurnIn(app.gameState) /\ app.gameState.status = "active")

\* C7 amended: the same, for a current snapshot that has a board field; in
\* every state the two flags are those of the snapshot last displayed.
C7_InteractiveIffMyTurnAndActive ==
  /\ ~Malformed(app.gameState) =>
       /\ gameGrid.isInteractive
            <=> (MyTurnIn(app.gameState) /\ app.gameState.status = "active")
       /\ guessInput.isEnabled
            <=> (MyTurnIn(app.gameState) /\ app.gameState.status = "active")
  /\ gameGrid.isInteractive
       <=> (isCurrentUserTurn(turnIndicator) /\ turnIndicator.gameStatus = "active")
  /\ guessInput.isEnabled = gameGrid.isInteractive

\* C7 witness: a snapshot with a board was applied and it is the user's
\* turn in an active game: board and input are enabled.
C7_Witness ==
  /\ ~Malformed(app.gameState)
  /\ app.gameState.status = "active"
  /\ MyTurnIn(app.gameState)
  /\ gameGrid.isInteractive
  /\ guessInput.isEnabled

\* C8: isCurrentUserTurn is true exactly when the current player number
\* names the slot whose identity is the (known) user's.
C8_TurnByIdentity ==
  isCurrentUserTurn(turnIndicator)
    = TurnByIdentity(turnIndicator.currentUserId, turnIndicator.currentPlayer,
                     turnIndicator.player1Id, turnIndicator.player2Id)

\* C8 witness: the user id is unknown, as is the first player's identity,
\* and it is player 1's turn: it is not the user's turn.
C8_Witness ==
  /\ turnIndicator.currentUserId = Null
  /\ turnIndicator.player1Id = Null
  /\ turnIndicator.currentPlayer = 1
  /\ turnIndicator.gameStatus = "active"
  /\ ~isCurrentUserTurn(turnIndicator)

\* C9: a step after which the current snapshot has no board field leaves
\* the board, the turn / score view and the interactivity flags unchanged.
C9_MalformedChangesNothing ==
  [][Malformed(app'.gameState) => UNCHANGED View]_vars

\* C9 witness: a finished snapshot without a board was applied over the
\* view of an active game, which is still displayed.
C9_Witness ==
  /\ Malformed(app.gameState)
  /\ app.gameState.status = "finished"
  /\ turnIndicator.gameStatus = "active"

\* The rows the authority has produced that can still reach the client.
RowsInPlay ==
  {room} \cup {p.new : p \in pushes} \cup {p.old : p \in pushes}
         \cup {f.row : f \in fetches}

\* C10: applying a snapshot twice in succession displays what applying it
\* once displays.
C10_ApplyIdempotent ==
  \A row \in RowsInPlay, shape \in Shapes :
    LET once == handleGameUpdate(Client, Snapshot(row, shape))
        twice == handleGameUpdate(once, Snapshot(row, shape))
    IN ViewOf(twice) = ViewOf(once)

\* C10 witness: a finished snapshot with a board was applied twice in
\* succession and is displayed.
C10_Witness ==
  /\ app.previousGameState = app.gameState
  /\ HasBoardArray(app.gameState)
  /\ app.gameState.status = "finished"
  /\ turnIndicator.gameStatus = "finished"
  /\ turnIndicator.player1Score + turnIndicator.player2Score = 1

\* C11: the status of the client's current snapshot never regresses
\* (waiting -> active -> finished, waiting -> cancelled), whatever the
\* order and repetition of notifications and fetch responses.
C11_StatusNeverRegresses ==
  [][StatusRank(app'.gameState.status) >= StatusRank(app.gameState.status)]_vars

\* C12: for every cell the client shows, revealed only goes from false to
\* true and the letter of a revealed cell is never un-set.
C12_BoardMonotonic ==
  [][\A cell \in Cells :
       gameGrid.boardState[cell].revealed =>
         /\ gameGrid'.boardState[cell].revealed
         /\ gameGrid'.boardState[cell].letter = gameGrid.boardState[cell].letter]_vars

\* A create trigger was handled in this step: suppressed, or a request started.
CreateTriggered ==
  \/ createFlow'.ignored # createFlow.ignored
  \/ Len(createFlow'.requests) # Len(createFlow.requests)

LatestCreate == createFlow.requests[Len(createFlow.requests)]

\* C13: while the create in-flight flag is set, a further create trigger
\* issues no createGame call and changes no session state.
C13_SuppressedCreateChangesNothing ==
  [][(app.isCreatingGame /\ CreateTriggered) =>
       /\ createFlow'.requests = createFlow.requests
       /\ UNCHANGED <<clientVars, subscribed, fetches, rpc, timers>>]_vars

\* C13 witness: a create trigger was suppressed while a request is in
\* flight and the flag is set.
C13_Witness ==
  /\ createFlow.ignored = 1
  /\ app.isCreatingGame
  /\ Len(createFlow.requests) = 1
  /\ LatestCreate.call = "pending"

\* C14 as stated: once the latest create request has succeeded, has failed
\* or has timed out, the in-flight flag is cleared.
C14_Original ==
  Len(createFlow.requests) > 0 =>
    ((LatestCreate.call # "pending" \/ LatestCreate.timer = "fired")
       => ~app.isCreatingGame)

\* C14 amended: once the latest create request has failed or has timed out
\* the flag is cleared, and the step in which a request succeeds leaves the
\* flag as it is.
C14_ClearedOnFailureOrTimeout ==
  [][/\ (/\ Len(createFlow'.requests) > 0
         /\ \/ LatestCreate'.call = "failed"
            \/ LatestCreate'.timer = "fired")
        => ~app'.isCreatingGame
     /\ (\E k \in CreateRequests :
           createFlow.requests[k].call = "pending"
           /\ createFlow'.requests[k].call = "ok")
        => app'.isCreatingGame = app.isCreatingGame]_vars

\* C14 witness: the latest request failed before its timer fired, and the
\* flag is cleared.
C14_Witness ==
  /\ Len(createFlow.requests) > 0
  /\ LatestCreate.call = "failed"
  /\ LatestCreate.timer = "armed"
  /\ ~app.isCreatingGame

\* C15: after any create request the in-flight flag is eventually false
\* again, also when the remote call never returns.
C15_FlagEventuallyCleared == app.isCreatingGame ~> ~app.isCreatingGame

\* C15 witness: the remote call has not returned, the timer has fired and
\* the flag is false.
C15_Witness ==
  /\ Len(createFlow.requests) = 1
  /\ LatestCreate.call = "pending"
  /\ LatestCreate.timer = "fired"
  /\ ~app.isCreatingGame

TransientCodes == {"NETWORK_ERROR", "TIMEOUT_ERROR"}

AllTransient(errors) == \A i \in 1..Len(errors) : errors[i] \in TransientCodes

\* C16: when every attempt of a retried operation fails with a transient
\* error, the remote call is made exactly MaxRetries times and the failure
\* is then thrown to the caller; in no case is it made more often.
C16_TransientRetriedToCeiling ==
  /\ gateway.calls <= MaxRetries
  /\ (/\ gateway.op \in RetriedOps
      /\ gateway.pc = "done"
      /\ gateway.result.from = "thrown"
      /\ AllTransient(gateway.errors))
     => /\ gateway.calls = MaxRetries
        /\ Len(gateway.errors) = MaxRetries
        /\ gateway.result.kind = "error"
        /\ gateway.result.code \in TransientCodes

\* C16 witness: createGame ended after three attempts that all failed on
\* the network or timed out.
C16_Witness ==
  /\ gateway.op = "createGame"
  /\ gateway.pc = "done"
  /\ gateway.errors = <<"NETWORK_ERROR", "TIMEOUT_ERROR", "NETWORK_ERROR">>
  /\ gateway.calls = 3
  /\ gateway.result.code = "NETWORK_ERROR"

\* C17: the wait before attempt k + 1 is the delay times k: 1000 ms after
\* the first failure, 2000 ms after the second.
C17_LinearBackoff ==
  /\ \A k \in 1..Len(gateway.waits) : gateway.waits[k] = 1000 * k
  /\ gateway.pc \in {"calling", "waiting"} =>
       Len(gateway.waits) = IF gateway.pc = "waiting" THEN gateway.attempt
                            ELSE gateway.attempt - 1

\* C17 witness: the second failure is being waited out.
C17_Witness ==
  /\ gateway.pc = "waiting"
  /\ gateway.attempt = 2
  /\ gateway.waits = <<1000, 2000>>

C19_GetGameStateRetried ==
  (/\ gateway.op = "getGameState"
   /\ gateway.pc = "done"
   /\ gateway.result.from = "thrown"
   /\ AllTransient(gateway.errors))
  => gateway.calls = MaxRetries

\* What the caller can tell is wrong with the arguments before any remote
\* call, stated on the values themselves.
IntegerIn(v, low, high) == v.type = "number" /\ v.int /\ low <= v.n /\ v.n <= high

WellFormedId(id) ==
  /\ id.type = "string" /\ ~id.empty /\ id.layout /\ id.hex
  /\ id.version \in {"1", "2", "3", "4", "5"}
  /\ id.variant \in {"8", "9", "a", "b", "A", "B"}

WellFormedWord(word) ==
  /\ word.type = "string"
  /\ \E lead, trail \in 0..Len(word.chars) :
       /\ lead + trail <= Len(word.chars)
       /\ \A i \in 1..Len(word.chars) :
            IF i <= lead \/ i > Len(word.chars) - trail
            THEN word.chars[i] = " "
            ELSE word.chars[i] \in CyrillicLower \cup CyrillicUpper
       /\ Len(word.chars) - lead - trail \in 5..8

InvalidInput(op, args) ==
  CASE op = "createGame" ->
         args.wordLength.type # "undefined" /\ ~IntegerIn(args.wordLength, 5, 8)
    [] op = "revealCell" ->
         \/ ~WellFormedId(args.roomId)
         \/ ~IntegerIn(args.row, 0, 4)
         \/ ~IntegerIn(args.col, 0, 4)
    [] op = "validateGuess" -> ~WellFormedId(args.roomId) \/ ~WellFormedWord(args.word)
    [] OTHER -> ~WellFormedId(args.roomId)

\* C20: a gateway call with client-detectable invalid input fails with
\* INVALID_INPUT and makes no remote call.
C20_InvalidInputNoRemoteCall ==
  (gateway.op # "none" /\ InvalidInput(gateway.op, gateway.args))
  => /\ gateway.pc = "done"
     /\ gateway.calls = 0
     /\ gateway.result = [kind |-> "error", code |-> "INVALID_INPUT",
                          from |-> "validation"]

\* C20 witness: getGameState was called with a room id that is no
\* well-formed id and ended without a remote call.
C20_Witness ==
  /\ gateway.op = "getGameState"
  /\ gateway.args.roomId = JsId("string", TRUE, TRUE, "7", "a")
  /\ gateway.calls = 0
  /\ gateway.result.code = "INVALID_INPUT"

\* The codes a GameError made by the gateway can carry: the keys of
\* ERROR_MESSAGES (invalid input, the domain reasons, network, timeout,
\* unknown) and the two codes handleError gives to Supabase errors.
ClassificationCodes ==
  {ERROR_MESSAGES[i] : i \in 1..Len(ERROR_MESSAGES)} \cup {"NOT_FOUND", "AUTH_ERROR"}

\* C21: every failure of a gateway function reaches the caller as a
\* GameError that carries a classification code; no raw error is thrown.
C21_FailuresAreGameErrors ==
  (gateway.pc = "done" /\ gateway.result.kind = "error")
  => /\ gateway.thrown.gameError
     /\ gateway.thrown.code = gateway.result.code
     /\ gateway.thrown.code \in ClassificationCodes

\* C21 witness: the query of getGameState threw an error handleError
\* recognizes nothing in, and the caller got a GameError UNKNOWN_ERROR.
C21_Witness ==
  /\ gateway.op = "getGameState"
  /\ gateway.pc = "done"
  /\ gateway.calls = 1
  /\ gateway.result = [kind |-> "error", code |-> "UNKNOWN_ERROR", from |-> "thrown"]
  /\ gateway.thrown = GameError("UNKNOWN_ERROR")

\* C22: every gateway call eventually completes, returning or failing,
\* also when the backend never answers.
C22_CallEventuallyCompletes == (gateway.pc = "calling") ~> (gateway.pc = "done")

\* The callbacks of the notification handled last, by name.
LastCallbacks == {bridge.last.log[i].callback : i \in 1..Len(bridge.last.log)}

\* The place of a callback in the calls of the notification handled last
\* (0 when it was not called).
PlaceOf(callback) ==
  IF callback \in LastCallbacks
  THEN CHOOSE i \in 1..Len(bridge.last.log) : bridge.last.log[i].callback = callback
  ELSE 0

Before(first, second) ==
  (PlaceOf(first) # 0 /\ PlaceOf(second) # 0) => PlaceOf(first) < PlaceOf(second)

\* C23: for one raw update the callbacks are invoked in the order join,
\* cell-reveal, finish, and the generic update last.
C23_GenericUpdateLast ==
  /\ Before("onPlayerJoined", "onCellRevealed")
  /\ Before("onCellRevealed", "onGameFinished")
  /\ Before("onPlayerJoined", "onGameUpdate")
  /\ Before("onCellRevealed", "onGameUpdate")
  /\ Before("onGameFinished", "onGameUpdate")

\* C24: for each raw UPDATE the callbacks invoked are exactly: the generic
\* update with the new record, onPlayerJoined iff the second player goes
\* from absent to present, onCellRevealed iff the board differs between old
\* and new, onGameFinished iff the status goes from active to finished;
\* each of them once and with the new record.
C24_EventsMatchTheDifference ==
  bridge.last.eventType = "UPDATE" =>
    LET old == bridge.last.old
        new == bridge.last.new
    IN /\ LastCallbacks \subseteq
            {"onGameUpdate", "onPlayerJoined", "onCellRevealed", "onGameFinished"}
       /\ Len(bridge.last.log) = Cardinality(LastCallbacks)
       /\ "onGameUpdate" \in LastCallbacks
       /\ "onPlayerJoined" \in LastCallbacks
            <=> (old.player2_id = Null /\ new.player2_id # Null)
       /\ "onCellRevealed" \in LastCallbacks <=> (BoardOf(old) # BoardOf(new))
       /\ "onGameFinished" \in LastCallbacks
            <=> (old.status = "active" /\ new.status = "finished")
       /\ \A i \in 1..Len(bridge.last.log) :
            bridge.last.log[i].record = Snapshot(new, "board_state")

\* C24 witness: the update that finishes an active game and reveals the
\* board invoked the generic, the cell-reveal and the finish callback.
C24_Witness ==
  /\ bridge.last.eventType = "UPDATE"
  /\ bridge.last.old = RowActive
  /\ bridge.last.new = RowFinished
  /\ LastCallbacks = {"onGameUpdate", "onCellRevealed", "onGameFinished"}

\* C25: once a DELETE was handled on a channel and every unsubscribe call
\* has run to its end, that channel is removed and no callback was invoked
\* through it any more.
C25_NoCallbackAfterDelete ==
  /\ ~bridge.late
  /\ (bridge.deletedOn # {} /\ bridge.pending = <<>>)
       => \A channel \in bridge.deletedOn : bridge.status[channel] = "removed"

\* C26: when a channel reports CHANNEL_ERROR or TIMED_OUT, the error
\* callback is invoked once and no channel is created.
C26_ErrorReportedOnce ==
  bridge.report.status \in {"CHANNEL_ERROR", "TIMED_OUT"}
  => /\ bridge.report.onError = 1
     /\ bridge.report.created = 0

\* C27: when the room the client is bound to is finished or cancelled, the
\* client unsubscribes from the room's notifications: once the client has
\* applied such a snapshot and no step is left that changes anything, the
\* room is not subscribed any more.
C27_UnsubscribedWhenOver ==
  (/\ app.gameState.status \in {"finished", "cancelled"}
   /\ ~ENABLED <<Next>>_vars)
  => ~subscribed

\* C28: a client that is a player of the room and loads the page with the
\* room id in the URL is bound to the room again: once the join started
\* from the URL and the loading of the state are over, the room id is
\* stored, the room is subscribed, a snapshot of the room is applied and the
\* input is enabled exactly when it is this user's turn in an active game.
C28_ReloadResumes ==
  (/\ room.player1_id = Me \/ room.player2_id = Me
   /\ rpc.started > 0
   /\ rpc.joins = 0
   /\ fetches = {})
  => /\ app.roomId = RoomId
     /\ subscribed
     /\ app.gameState.id = RoomId
     /\ guessInput.isEnabled =
          (MyTurnIn(app.gameState) /\ app.gameState.status = "active")

\* C29: validateWordLength is valid for every integer from 5 to 8 and
\* invalid for every other input.
C29_WordLengthValidIffInRange ==
  validation.fn = "validateWordLength" =>
    (validation.output.valid <=> IntegerIn(validation.input, 5, 8))

\* C29 witness: validateWordLength was called with 8 and found it valid.
C29_Witness ==
  /\ validation.fn = "validateWordLength"
  /\ validation.input = JsNumber(8)
  /\ validation.output.valid

\* The letters of the pattern /^[a-ya, yo]+$/i and their upper case.
RussianLetters ==
  {<<"cyr-a", "CYR-A">>, <<"cyr-ya", "CYR-YA">>, <<"cyr-yo", "CYR-YO">>,
   <<"CYR-A", "CYR-A">>, <<"CYR-YA", "CYR-YA">>, <<"CYR-YO", "CYR-YO">>}

CyrillicLetters ==
  RussianLetters \cup {<<"cyr-i-ukr", "CYR-I-UKR">>, <<"CYR-I-UKR", "CYR-I-UKR">>}

UpperIn(letters, ch) == (CHOOSE pair \in letters : pair[1] = ch)[2]

\* A text value is lead spaces, then 5 to 8 of the given letters, then
\* trail spaces.
WordShape(letters, word, lead, trail) ==
  /\ Len(word.chars) - lead - trail \in 5..8
  /\ \A i \in 1..Len(word.chars) :
       IF i <= lead \/ i > Len(word.chars) - trail
       THEN word.chars[i] = " "
       ELSE word.chars[i] \in {pair[1] : pair \in letters}

IsWordWithin(letters, word) ==
  /\ word.type = "string"
  /\ \E lead, trail \in 0..Len(word.chars) : WordShape(letters, word, lead, trail)

\* normalized is the letters of such a text value in upper case.
WordWithin(letters, word, normalized) ==
  /\ word.type = "string"
  /\ \E lead, trail \in 0..Len(word.chars) :
       /\ WordShape(letters, word, lead, trail)
       /\ normalized = [i \in 1..(Len(word.chars) - lead - trail) |->
                          UpperIn(letters, word.chars[lead + i])]

C31_NormalizedIsFixedPoint ==
  (validation.fn = "validateGuessInput" /\ validation.output.valid) =>
    LET again == validateGuessInput(JsText(validation.output.normalized))
    IN /\ again.valid
       /\ again.normalized = validation.output.normalized

\* C31 witness: a word with small letters and white space around it was
\* accepted, so its normalized form differs from it, and validating the
\* normalized form gives the normalized form back.
C31_Witness ==
  /\ validation.fn = "validateGuessInput"
  /\ validation.output.valid
  /\ Len(validation.input.chars) > Len(validation.output.normalized)
  /\ \E i \in 1..Len(validation.input.chars) : validation.input.chars[i] \in CyrillicLower
  /\ validateGuessInput(JsText(validation.output.normalized)).normalized
       = validation.output.normalized

\* A returned value is an object with a validity flag and, when the flag
\* is false, an error description.
StructuredResult(output) ==
  /\ "valid" \in DOMAIN output
  /\ output.valid \in BOOLEAN
  /\ ~output.valid => ("error" \in DOMAIN output /\ output.error # Null)

\* C32 as stated: each of the four validators returns, for every input, a
\* structured result with a validity flag and, when invalid, an error
\* description, and does not throw.
C32_Original ==
  validation.fn # "none" => (StructuredResult(validation.output) /\ ~validation.threw)

\* C32 amended: validateWordLength, validateCellCoordinates and
\* validateGuessInput return, for every input, a structured result with a
\* validity flag and, when invalid, an error description; validateUUID
\* returns a bare boolean with no error description; none of the four
\* throws.
C32_ValidatorsReturnAndNeverThrow ==
  /\ validation.fn \in {"validateWordLength", "validateCellCoordinates",
                        "validateGuessInput"} =>
       StructuredResult(validation.output)
  /\ validation.fn = "validateUUID" =>
       (DOMAIN validation.output = {"boolean"} /\ validation.output.boolean \in BOOLEAN)
  /\ ~validation.threw

\* C32 witness: validateGuessInput was called with a number and returned an
\* invalid result with an error description.
C32_Witness ==
  /\ validation.fn = "validateGuessInput"
  /\ validation.input = JsNoText("number")
  /\ ~validation.output.valid
  /\ validation.output.error # Null
  /\ ~validation.threw

\* The current snapshot and the previous snapshot of a client.
SnapshotPair(c) == <<c.app.gameState, c.app.previousGameState>>

\* C33: the pair of the current and the previous snapshot is written only
\* where handleGameUpdate is applied (loadGameState with the snapshot it
\* fetched, and the callbacks of the subscription): every other step (create,
\* join, their failures and timers, a board click, a guess, a skip, their
\* outcomes, sharing, an error shown or hidden) leaves both unchanged, and
\* so does every handler that runs next to handleGameUpdate.
C33_OnlyApplyWritesSnapshots ==
  [][/\ SnapshotPair(Client)' # SnapshotPair(Client)
          => (LoadGameStateReturns \/ DeliverPush)
     /\ \A c \in {handleError(Client), showGameScreen(Client),
                  showWaitingForPlayer(Client), hideWaitingForPlayer(Client),
                  BeginCreateGame(Client), CreateTimerCallback(Client),
                  CreateGameCatch(Client), AfterLoad(Client, "create"),
                  AfterLoad(Client, "join"),
                  handleGameFinished(Client, app.gameState),
                  ShowPlayerJoined(Client, app.gameState, TRUE)} :
          SnapshotPair(c) = SnapshotPair(Client)]_vars

\* C33 witness: a snapshot of the room is applied and this user's reveal
\* request, started by a board click, is in flight.
C33_Witness ==
  /\ app.gameState.id = RoomId
  /\ app.previousGameState.id = RoomId
  /\ \E call \in play.calls : call.op = "revealCell"

\* A remote call of an App handler fails, or the subscription reports an
\* error.
FailureStep ==
  \/ CreateGameFails
  \/ JoinGameFails
  \/ LoadGameStateFails
  \/ RevealCellFails
  \/ ValidateGuessFails
  \/ SkipTurnFails
  \/ SubscriptionError

\* C34: every failure of a remote call of an App handler (create, join,
\* load state, reveal, guess, skip) and every subscription error leaves an
\* error message displayed to the user (which its timer dismisses later).
C34_EveryFailureDisplayed ==
  [][FailureStep => ui'.errorMessage]_vars

\* C35: once every unsubscribe call that was waiting has run to its end,
\* every channel that is still open is the one the channel map holds for
\* the room: after a subscribeToRoom for a room already subscribed the room
\* is subscribed with the newly created channel, and unsubscribeAll would
\* close it.
C35_OpenChannelIsTracked ==
  bridge.pending = <<>> =>
    \A k \in 1..MaxChannels : bridge.status[k] = "open" => bridge.channels = k

\* C36: while a create request whose timer has not fired yet is still in
\* flight, the in-flight flag is set: the timer of an earlier request that
\* has failed does not clear the flag of a later request.
C36_FlagHeldWhileRequestYoung ==
  \A k \in CreateRequests :
    (createFlow.requests[k].call = "pending" /\ createFlow.requests[k].timer = "armed")
      => app.isCreatingGame

\* C37: a reveal request starts from a board click only when the
\* coordinates are integers from 0 to 4, the cell is not revealed on the
\* board as displayed and the board is interactive; no reveal request
\* starts while the interactive flag of the board is false.
C37_ClickForwardedOnlyWhenAllowed ==
  [][\A call \in play'.calls \ play.calls :
       call.op = "revealCell" =>
         /\ IntegerIn(call.row, 0, 4)
         /\ IntegerIn(call.col, 0, 4)
         /\ ~gameGrid.boardState[CellAt(call.row, call.col)].revealed
         /\ gameGrid.isInteractive]_vars

\* C37 witness: the board is interactive, its first cell is hidden, and the
\* click on it was forwarded: the reveal request for (0, 0) is in flight.
C37_Witness ==
  /\ gameGrid.isInteractive
  /\ ~gameGrid.boardState[1].revealed
  /\ [op |-> "revealCell", row |-> JsNumber(0), col |-> JsNumber(0)] \in play.calls

\* C38: when joinGame fails, handleJoinGame leaves the session as it was:
\* the room id, the first-player flag, the notification flag and the
\* snapshots keep their values, no subscription is created and no
\* loadGameState is started.
C38_FailedJoinKeepsSession ==
  [][(rpc'.joins < rpc.joins /\ room' = room)
       => /\ app' = app
          /\ subscribed' = subscribed
          /\ fetches' = fetches]_vars

\* C38 witness: the join started from the room id has failed: its error is
\* displayed, no room is bound and nothing is subscribed.
C38_Witness ==
  /\ rpc.started = 1
  /\ rpc.joins = 0
  /\ ui.errorMessage
  /\ app.roomId = Null
  /\ ~subscribed
  /\ room.status # "none"

\* C39: when a consumer callback throws while the bridge handles a raw
\* notification, the exception does not leave the bridge: the bridge calls the
\* error callback exactly once, after the callback that threw, with a
\* GameError.
C39_ThrowCaughtAndReportedOnce ==
  "threw" \in DOMAIN bridge.last =>
    LET log == bridge.last.log
    IN /\ ~bridge.last.escaped
       /\ Len(log) = bridge.last.threw + 1
       /\ Cardinality({i \in 1..Len(log) : log[i].callback = "onError"}) = 1
       /\ log[Len(log)].callback = "onError"
       /\ log[Len(log)].record.gameError

\* A runtime error thrown by the second callback of a notification was
\* reported as UNKNOWN_ERROR.
C39_Witness ==
  /\ "threw" \in DOMAIN bridge.last
  /\ bridge.last.threw = 2
  /\ bridge.last.log[2].callback = "onPlayerJoined"
  /\ bridge.last.log[3].callback = "onError"
  /\ bridge.last.log[3].record = GameError("UNKNOWN_ERROR")

\* The numbers of the debounce calls whose callback has run.
RanIds == {debouncer.ran[i].id : i \in 1..Len(debouncer.ran)}

\* C40: for each key, when a debounce call arrives before the delay of an
\* earlier call of the key has elapsed, the callback of the earlier call never
\* runs, so a burst runs at most the callback of its last call; a callback
\* runs at most once and not before its delay has elapsed; every scheduled
\* timer is the one registered for its key, and after a callback has run or
\* after clear() no timer is registered or scheduled for the key.
C40_BurstRunsLastCallbackOnce ==
  /\ [](/\ \A i \in 1..Len(debouncer.calls) : \A j \in 1..Len(debouncer.calls) :
             (/\ i < j
              /\ debouncer.calls[i].key = debouncer.calls[j].key
              /\ debouncer.calls[j].at < debouncer.calls[i].at + debouncer.calls[i].delay)
               => i \notin RanIds
        /\ \A i \in 1..Len(debouncer.ran) : \A j \in 1..Len(debouncer.ran) :
             debouncer.ran[i].id = debouncer.ran[j].id => i = j
        /\ \A i \in 1..Len(debouncer.ran) :
             LET call == debouncer.calls[debouncer.ran[i].id]
             IN debouncer.ran[i].at >= call.at + call.delay
        /\ \A t \in debouncer.scheduled : debouncer.timers[t.key] = t.id)
  /\ [][/\ Len(debouncer'.ran) > Len(debouncer.ran) =>
             LET key == debouncer'.ran[Len(debouncer'.ran)].key
             IN /\ debouncer'.timers[key] = 0
                /\ \A t \in debouncer'.scheduled : t.key # key
        /\ DebounceClear =>
             /\ \A key \in DebounceKeys : debouncer'.timers[key] = 0
             /\ debouncer'.scheduled = {}]_vars

\* A burst of three calls of one key, each before the delay of the one before
\* had elapsed, ran the callback of the third call only, and the key is no
\* longer registered.
C40_Witness ==
  /\ Len(debouncer.calls) = 3
  /\ \A i \in 1..3 : debouncer.calls[i].key = "loadGameState"
  /\ \A i \in 1..2 : /\ debouncer.calls[i].at < debouncer.calls[i + 1].at
                     /\ debouncer.calls[i + 1].at
                          < debouncer.calls[i].at + debouncer.calls[i].delay
  /\ RanIds = {3}
  /\ debouncer.timers["loadGameState"] = 0
  /\ debouncer.scheduled = {}

====
